---- MODULE Spec2Model ----
(***************************************************************************)
(* A model of the SQL blob metadata store (SqlBlobMetadataStore.ts): the   *)
(* container, blob and block tables, the store operations that read and    *)
(* write them inside one transaction each, and the lease state machine and *)
(* conditional-header validators those operations call.                    *)
(*                                                                         *)
(* One account is modelled.  A transaction is one atomic step: the         *)
(* backing store serialises the transactions of one entity, and a throw    *)
(* inside the transaction callback rolls back, so an operation that ends   *)
(* with an error returns the tables it was given.  The logical time of a   *)
(* request (context.startTime) is the time at which its transaction runs.  *)
(* where is the tag filter handed to analysis.  linkedList is a LinkedList  *)
(* with the data of the calls that returned.                               *)
(***************************************************************************)
EXTENDS Integers, Sequences, FiniteSets, TLC

VARIABLES containers, blobs, blocks, etagSeq, now, where, linkedList

vars == <<containers, blobs, blocks, etagSeq, now, where, linkedList>>

(***************************************************************************)
(* Bounds of the model.                                                    *)
(***************************************************************************)
\* the logical clock stops advancing here
MaxTime == 20
\* ETags handed out by newEtag
MaxEtag == 4
\* a block row's deleting counter is not pushed past this
MaxDeleting == 2

(***************************************************************************)
(* Values.                                                                 *)
(***************************************************************************)
\* undefined / null of an optional string field
Undef == "undefined"
\* undefined / null of an optional Date or number field
NoTime == 0 - 1
\* no ETag given in a condition
NoEtag == 0
\* the ETag wildcard "*"
AnyEtag == 0 - 1
\* the snapshot column of a base blob ("")
BaseSnapshot == 0 - 1
\* no error
Ok == "ok"

\* lease durations accepted by acquire
InfiniteLeaseDuration == 0 - 1
MinLeaseDuration == 15
MaxLeaseDuration == 60

Min(a, b) == IF a <= b THEN a ELSE b

(***************************************************************************)
(* The lease state machine (LeaseFactory and the lease states), the lease  *)
(* validators and syncers.                                                 *)
(***************************************************************************)
\* a lease with every field unset, as written by sync({leaseId: undefined, ...})
ClearedLease ==
  [leaseState |-> Undef, leaseStatus |-> Undef, leaseDurationType |-> Undef,
   leaseId |-> Undef, leaseExpireTime |-> NoTime, leaseBreakTime |-> NoTime,
   leaseDurationSeconds |-> NoTime]

\* the lease of an entity that is not leased
AvailableLease ==
  [ClearedLease EXCEPT !.leaseState = "available", !.leaseStatus = "unlocked"]

\* LeaseFactory.createLeaseState: the state a stored lease presents at logical time t
createLeaseState(lease, t) ==
  CASE lease.leaseState = "leased" ->
         IF lease.leaseExpireTime # NoTime /\ lease.leaseExpireTime <= t
           THEN [lease EXCEPT !.leaseState = "expired", !.leaseStatus = "unlocked"]
           ELSE lease
    [] lease.leaseState = "breaking" ->
         IF lease.leaseBreakTime # NoTime /\ lease.leaseBreakTime <= t
           THEN [lease EXCEPT !.leaseState = "broken", !.leaseStatus = "unlocked"]
           ELSE lease
    [] lease.leaseState \in {"expired", "broken"} -> lease
    [] OTHER -> AvailableLease

\* the lease is held: Leased or Breaking
LeaseActive(ls) == ls.leaseState \in {"leased", "breaking"}

ValidLeaseDuration(d) ==
  d = InfiniteLeaseDuration \/ (d >= MinLeaseDuration /\ d <= MaxLeaseDuration)

\* the id a lease gets when the caller proposes none (uuid())
GeneratedLeaseId == "generated"

\* acquire(duration, proposedLeaseId) on the observed lease ls at time t
LeaseAcquire(ls, t, duration, proposedLeaseId) ==
  CASE ls.leaseState = "leased" -> [err |-> "LeaseAlreadyPresent", lease |-> ls]
    [] ls.leaseState = "breaking" ->
         [err |-> "LeaseIsBreakingAndCannotBeAcquired", lease |-> ls]
    [] OTHER ->
         IF ~ValidLeaseDuration(duration)
           THEN [err |-> "InvalidHeaderValue", lease |-> ls]
           ELSE [err |-> Ok,
                 lease |->
                   [leaseState |-> "leased", leaseStatus |-> "locked",
                    leaseDurationType |->
                      IF duration = InfiniteLeaseDuration THEN "infinite" ELSE "fixed",
                    leaseId |->
                      IF proposedLeaseId = Undef THEN GeneratedLeaseId
                                                 ELSE proposedLeaseId,
                    leaseExpireTime |->
                      IF duration = InfiniteLeaseDuration THEN NoTime ELSE t + duration,
                    leaseBreakTime |-> NoTime,
                    leaseDurationSeconds |-> duration]]

\* renew(leaseId)
LeaseRenew(ls, t, leaseId) ==
  CASE ls.leaseState \in {"leased", "breaking"} ->
         IF ls.leaseId # leaseId
           THEN [err |-> "LeaseIdMismatchWithLeaseOperation", lease |-> ls]
           ELSE [err |-> Ok,
                 lease |->
                   [ls EXCEPT !.leaseState = "leased", !.leaseStatus = "locked",
                              !.leaseExpireTime =
                                IF ls.leaseDurationSeconds = InfiniteLeaseDuration
                                  THEN NoTime ELSE t + ls.leaseDurationSeconds,
                              !.leaseBreakTime = NoTime]]
    [] ls.leaseState = "broken" ->
         [err |-> "LeaseIsBrokenAndCannotBeRenewed", lease |-> ls]
    [] OTHER -> [err |-> "LeaseNotPresent", lease |-> ls]

\* release(leaseId)
LeaseRelease(ls, t, leaseId) ==
  CASE ls.leaseState \in {"leased", "breaking"} ->
         IF ls.leaseId # leaseId
           THEN [err |-> "LeaseIdMismatchWithLeaseOperation", lease |-> ls]
           ELSE [err |-> Ok, lease |-> AvailableLease]
    [] OTHER -> [err |-> "LeaseNotPresent", lease |-> ls]

\* break(breakPeriod); breakPeriod = NoTime when the caller gives none
LeaseBreak(ls, t, breakPeriod) ==
  CASE ls.leaseState = "leased" ->
         IF ls.leaseDurationSeconds = InfiniteLeaseDuration \/ breakPeriod = NoTime
           THEN [err |-> Ok,
                 lease |-> [ls EXCEPT !.leaseState = "broken",
                                      !.leaseStatus = "unlocked",
                                      !.leaseExpireTime = NoTime,
                                      !.leaseBreakTime = NoTime]]
           ELSE [err |-> Ok,
                 lease |-> [ls EXCEPT !.leaseState = "breaking",
                                      !.leaseStatus = "locked",
                                      !.leaseBreakTime =
                                        Min(ls.leaseExpireTime, t + breakPeriod),
                                      !.leaseExpireTime = NoTime]]
    [] ls.leaseState = "breaking" ->
         IF breakPeriod = NoTime
           THEN [err |-> Ok, lease |-> ls]
           ELSE [err |-> Ok,
                 lease |-> [ls EXCEPT !.leaseBreakTime =
                                        Min(ls.leaseBreakTime, t + breakPeriod)]]
    [] ls.leaseState = "broken" -> [err |-> Ok, lease |-> ls]
    [] OTHER -> [err |-> "LeaseNotPresent", lease |-> ls]

\* change(leaseId, proposedLeaseId)
LeaseChange(ls, t, leaseId, proposedLeaseId) ==
  CASE ls.leaseState = "leased" ->
         IF ls.leaseId # leaseId
           THEN [err |-> "LeaseIdMismatchWithLeaseOperation", lease |-> ls]
           ELSE [err |-> Ok, lease |-> [ls EXCEPT !.leaseId = proposedLeaseId]]
    [] ls.leaseState = "breaking" ->
         [err |-> "LeaseIsBreakingAndCannotBeChanged", lease |-> ls]
    [] OTHER -> [err |-> "LeaseNotPresent", lease |-> ls]

\* BlobWriteLeaseValidator / ContainerDeleteLeaseValidator: a held lease
\* demands its id
WriteLeaseValidator(ls, leaseId) ==
  IF LeaseActive(ls)
    THEN IF leaseId = Undef THEN "LeaseIdMissing"
         ELSE IF leaseId # ls.leaseId THEN "LeaseIdMismatch"
         ELSE Ok
    ELSE IF leaseId # Undef THEN "LeaseNotPresent" ELSE Ok

\* BlobReadLeaseValidator / ContainerReadLeaseValidator: an id, when given,
\* must be the id of a held lease
ReadLeaseValidator(ls, leaseId) ==
  IF leaseId = Undef THEN Ok
  ELSE IF ~LeaseActive(ls) THEN "LeaseNotPresent"
  ELSE IF leaseId # ls.leaseId THEN "LeaseIdMismatch"
  ELSE Ok

\* BlobLeaseSyncer / ContainerLeaseSyncer: the observed lease written back as it is
LeaseSyncer(ls) == ls

\* BlobWriteLeaseSyncer: a lease observed Expired or Broken is written back Available
WriteLeaseSyncer(ls) ==
  IF ls.leaseState \in {"expired", "broken"} THEN AvailableLease ELSE ls

(***************************************************************************)
(* The conditional-header validators.                                      *)
(***************************************************************************)
NoConditions ==
  [ifMatch |-> NoEtag, ifNoneMatch |-> NoEtag,
   ifModifiedSince |-> NoTime, ifUnmodifiedSince |-> NoTime]

\* the four checks against an entity that exists
ConditionsOnEntity(cond, etag, lastModified) ==
  IF cond.ifModifiedSince # NoTime /\ lastModified <= cond.ifModifiedSince
    THEN "ConditionNotMet"
  ELSE IF cond.ifUnmodifiedSince # NoTime /\ lastModified > cond.ifUnmodifiedSince
    THEN "ConditionNotMet"
  ELSE IF cond.ifMatch # NoEtag /\ cond.ifMatch # AnyEtag /\ cond.ifMatch # etag
    THEN "ConditionNotMet"
  ELSE IF cond.ifNoneMatch # NoEtag
          /\ (cond.ifNoneMatch = AnyEtag \/ cond.ifNoneMatch = etag)
    THEN "ConditionNotMet"
  ELSE Ok

\* validateWriteConditions(context, conditions, model): rows is the set holding
\* the row read in the transaction, empty when there is none
validateWriteConditions(cond, rows) ==
  IF rows = {}
    THEN IF cond.ifMatch # NoEtag \/ cond.ifUnmodifiedSince # NoTime
           THEN "NotFound" ELSE Ok
    ELSE LET r == CHOOSE x \in rows : TRUE
         IN  ConditionsOnEntity(cond, r.etag, r.lastModified)

\* validateReadConditions(context, conditions, model)
validateReadConditions(cond, rows) ==
  IF rows = {}
    THEN IF cond.ifMatch # NoEtag THEN "ConditionNotMet" ELSE Ok
    ELSE LET r == CHOOSE x \in rows : TRUE
         IN  ConditionsOnEntity(cond, r.etag, r.lastModified)

(***************************************************************************)
(* The tables.  db is the record of the three tables and the ETag source.  *)
(***************************************************************************)
\* newEtag(): a token no entity has carried before
newEtag(db) == db.etagSeq + 1

\* the tables after one newEtag() call
EtagTaken(db) == [db EXCEPT !.etagSeq = db.etagSeq + 1]

\* what an operation hands back: the tables, the error kind (Ok for none),
\* and the lease id and lease time of a lease operation's response
Fail(db, e) == [db |-> db, err |-> e, leaseId |-> Undef, leaseTime |-> 0]

Done(db) == [db |-> db, err |-> Ok, leaseId |-> Undef, leaseTime |-> 0]

DoneLease(db, id, t) == [db |-> db, err |-> Ok, leaseId |-> id, leaseTime |-> t]

\* ContainersModel.findOne({where: {accountName, containerName}})
FindContainer(db, container) ==
  {r \in db.containers : r.containerName = container}

\* BlobsModel.findOne({where: {..., blobName, snapshot, deleting: 0}})
FindBlob(db, container, blob, snapshot) ==
  {r \in db.blobs : /\ r.containerName = container /\ r.blobName = blob
                    /\ r.snapshot = snapshot /\ r.deleting = 0}

\* BlobsModel.findOne without the isCommitted column in its where clause
FindBlobCommittedOrNot(db, container, blob, snapshot) ==
  FindBlob(db, container, blob, snapshot)

\* BlobsModel.findOne({where: {..., deleting: 0, isCommitted: true}})
FindCommittedBlob(db, container, blob, snapshot) ==
  {r \in FindBlob(db, container, blob, snapshot) : r.isCommitted}

\* the unique index of the Blobs table
SameBlobKey(r, s) ==
  /\ r.containerName = s.containerName /\ r.blobName = s.blobName
  /\ r.snapshot = s.snapshot /\ r.deleting = s.deleting

\* BlobsModel.upsert on a table without the unique index: always an insert
UpsertBlobInserts(db, row) == [db EXCEPT !.blobs = db.blobs \cup {row}]

\* BlobsModel.upsert(row): insert, or replace the row the unique index names
UpsertBlob(db, row) ==
  [db EXCEPT !.blobs = {r \in db.blobs : ~SameBlobKey(r, row)} \cup {row}]

\* the unique index of the Blocks table
SameBlockKey(r, s) ==
  /\ r.containerName = s.containerName /\ r.blobName = s.blobName
  /\ r.blockName = s.blockName

\* BlocksModel.upsert on a table without the unique index: always an insert
UpsertBlockAppends(db, row) == [db EXCEPT !.blocks = Append(db.blocks, row)]

\* BlocksModel.upsert(row): the Blocks table is kept in id order; an upsert
\* that hits the unique index rewrites the row in place
UpsertBlock(db, row) ==
  IF \E i \in 1..Len(db.blocks) : SameBlockKey(db.blocks[i], row)
    THEN [db EXCEPT !.blocks =
            [i \in 1..Len(db.blocks) |->
               IF SameBlockKey(db.blocks[i], row) THEN row ELSE db.blocks[i]]]
    ELSE [db EXCEPT !.blocks = Append(db.blocks, row)]

\* deleteBlobFromSQL({containerName}) and ({containerName, blobName})
deleteBlobFromSQL(db, container, blob) ==
  [db EXCEPT !.blobs =
     {r \in db.blobs : ~(r.containerName = container
                         /\ (blob = Undef \/ r.blobName = blob))}]

\* deleteBlobFromSQL({containerName, blobName, snapshot})
deleteSnapshotFromSQL(db, container, blob, snapshot) ==
  [db EXCEPT !.blobs =
     {r \in db.blobs : ~(r.containerName = container /\ r.blobName = blob
                         /\ r.snapshot = snapshot)}]

\* deleteBlobFromSQL({containerName, blobName, snapshot: {[Op.gt]: ""}})
deleteAllSnapshotsFromSQL(db, container, blob) ==
  [db EXCEPT !.blobs =
     {r \in db.blobs : ~(r.containerName = container /\ r.blobName = blob
                         /\ r.snapshot # BaseSnapshot)}]

\* deleteBlockFromSQL that destroys the live block rows only and keeps the
\* rows a commit has marked
deleteBlockFromSQLLiveOnly(db, container, blob) ==
  LET Keep(r) == ~(r.containerName = container /\ r.deleting = 0
                   /\ (blob = Undef \/ r.blobName = blob))
  IN  [db EXCEPT !.blocks = SelectSeq(db.blocks, Keep)]

\* deleteBlockFromSQL({containerName}) and ({containerName, blobName})
deleteBlockFromSQL(db, container, blob) ==
  LET Keep(r) == ~(r.containerName = container
                   /\ (blob = Undef \/ r.blobName = blob))
  IN  [db EXCEPT !.blocks = SelectSeq(db.blocks, Keep)]

\* Model.update(values, ...): the row with the columns named in values set
SetColumns(row, values) ==
  [f \in DOMAIN row |-> IF f \in DOMAIN values THEN values[f] ELSE row[f]]

\* ContainersModel.update(values, {where: {accountName, containerName}})
UpdateContainer(db, container, values) ==
  [db EXCEPT !.containers =
     {IF r.containerName = container THEN SetColumns(r, values) ELSE r
        : r \in db.containers}]

\* BlobsModel.update(values, {where: {..., blobName, snapshot, deleting: 0}})
UpdateBlob(db, container, blob, snapshot, values) ==
  [db EXCEPT !.blobs =
     {IF /\ r.containerName = container /\ r.blobName = blob
         /\ r.snapshot = snapshot /\ r.deleting = 0
        THEN SetColumns(r, values) ELSE r : r \in db.blobs}]

(***************************************************************************)
(* Container operations.  st is context.startTime.                         *)
(***************************************************************************)
\* createContainer(context, container)
createContainer(db, container) ==
  IF FindContainer(db, container.containerName) # {}
    THEN Fail(db, "ContainerAlreadyExists")
    ELSE Done([db EXCEPT !.containers = db.containers \cup {container}])

\* deleteContainer that destroys the container row and leaves its blobs and
\* blocks
deleteContainerRowOnly(db, st, container, leaseId, cond) ==
  LET rows == FindContainer(db, container)
      e1 == validateWriteConditions(cond, rows)
  IN  IF e1 # Ok THEN Fail(db, e1)
      ELSE IF rows = {} THEN Fail(db, "ContainerNotFound")
      ELSE LET row == CHOOSE r \in rows : TRUE
               e2 == WriteLeaseValidator(createLeaseState(row.lease, st), leaseId)
           IN  IF e2 # Ok THEN Fail(db, e2)
               ELSE Done([db EXCEPT !.containers = db.containers \ rows])

\* deleteContainer(context, account, container, options)
deleteContainer(db, st, container, leaseId, cond) ==
  LET rows == FindContainer(db, container)
      e1 == validateWriteConditions(cond, rows)
  IN  IF e1 # Ok THEN Fail(db, e1)
      ELSE IF rows = {} THEN Fail(db, "ContainerNotFound")
      ELSE LET row == CHOOSE r \in rows : TRUE
               e2 == WriteLeaseValidator(createLeaseState(row.lease, st), leaseId)
           IN  IF e2 # Ok THEN Fail(db, e2)
               ELSE LET db1 == [db EXCEPT !.containers = db.containers \ rows]
                        db2 == deleteBlobFromSQL(db1, container, Undef)
                    IN  Done(deleteBlockFromSQL(db2, container, Undef))

\* setContainerMetadata(context, account, container, lastModified, etag,
\* metadata, leaseAccessConditions, modifiedAccessConditions)
setContainerMetadata(db, st, container, lastModified, etag, metadata, leaseId, cond) ==
  LET rows == FindContainer(db, container)
      e1 == validateWriteConditions(cond, rows)
  IN  IF e1 # Ok THEN Fail(db, e1)
      ELSE IF rows = {} THEN Fail(db, "ContainerNotFound")
      ELSE LET row == CHOOSE r \in rows : TRUE
               e2 == ReadLeaseValidator(createLeaseState(row.lease, st), leaseId)
               values == [lastModified |-> lastModified, etag |-> etag,
                          metadata |-> metadata]
           IN  IF e2 # Ok THEN Fail(db, e2)
               ELSE Done(UpdateContainer(db, container, values))

\* setContainerACL(context, account, container, setAclModel)
setContainerACL(db, st, container, lastModified, etag, containerAcl, leaseId, cond) ==
  LET rows == FindContainer(db, container)
      e1 == validateWriteConditions(cond, rows)
  IN  IF e1 # Ok THEN Fail(db, e1)
      ELSE IF rows = {} THEN Fail(db, "ContainerNotFound")
      ELSE LET row == CHOOSE r \in rows : TRUE
               e2 == ReadLeaseValidator(createLeaseState(row.lease, st), leaseId)
               values == [lastModified |-> lastModified, etag |-> etag,
                          containerAcl |-> containerAcl]
           IN  IF e2 # Ok THEN Fail(db, e2)
               ELSE Done(UpdateContainer(db, container, values))

\* the first part the five container lease operations share: read the row
\* and check the conditions; gives the error and the lease state of the row
ContainerLeaseRead(db, st, container, cond) ==
  LET rows == FindContainer(db, container)
      e1 == validateWriteConditions(cond, rows)
  IN  IF e1 # Ok THEN [err |-> e1, lease |-> AvailableLease]
      ELSE IF rows = {}
        THEN [err |-> "ContainerNotFound", lease |-> AvailableLease]
      ELSE [err |-> Ok,
            lease |-> createLeaseState((CHOOSE r \in rows : TRUE).lease, st)]

\* the second part they share: res is the outcome of the lease operation on
\* the lease that was read; on success the lease columns are written
ContainerLeaseWrite(db, st, container, read, res) ==
  IF read.err # Ok THEN Fail(db, read.err)
  ELSE IF res.err # Ok THEN Fail(db, res.err)
  ELSE LET synced == LeaseSyncer(res.lease)
       IN  DoneLease(UpdateContainer(db, container, [lease |-> synced]),
                     synced.leaseId,
                     IF synced.leaseState = "breaking"
                        /\ synced.leaseBreakTime # NoTime
                       THEN synced.leaseBreakTime - st ELSE 0)

\* acquireContainerLease that takes an acquire under the current lease id of
\* a Leased container as a renewal
acquireContainerLeaseSameIdRenews(db, st, container, duration, proposedLeaseId, cond) ==
  LET read == ContainerLeaseRead(db, st, container, cond)
      ls == read.lease
  IN  ContainerLeaseWrite(db, st, container, read,
        IF ls.leaseState = "leased" /\ ls.leaseId = proposedLeaseId
          THEN LeaseRenew(ls, st, proposedLeaseId)
          ELSE LeaseAcquire(ls, st, duration, proposedLeaseId))

\* acquireContainerLease(context, account, container, options)
acquireContainerLease(db, st, container, duration, proposedLeaseId, cond) ==
  LET read == ContainerLeaseRead(db, st, container, cond)
  IN  ContainerLeaseWrite(db, st, container, read,
                          LeaseAcquire(read.lease, st, duration, proposedLeaseId))

\* releaseContainerLease(context, account, container, leaseId, options)
releaseContainerLease(db, st, container, leaseId, cond) ==
  LET read == ContainerLeaseRead(db, st, container, cond)
  IN  ContainerLeaseWrite(db, st, container, read,
                          LeaseRelease(read.lease, st, leaseId))

\* renewContainerLease(context, account, container, leaseId, options)
renewContainerLease(db, st, container, leaseId, cond) ==
  LET read == ContainerLeaseRead(db, st, container, cond)
  IN  ContainerLeaseWrite(db, st, container, read,
                          LeaseRenew(read.lease, st, leaseId))

\* breakContainerLease that counts the break period from now whatever time
\* the lease has left
breakContainerLeaseFromNow(db, st, container, breakPeriod, cond) ==
  LET read == ContainerLeaseRead(db, st, container, cond)
      res == LeaseBreak(read.lease, st, breakPeriod)
  IN  ContainerLeaseWrite(db, st, container, read,
        IF res.err = Ok /\ res.lease.leaseState = "breaking" /\ breakPeriod # NoTime
          THEN [res EXCEPT !.lease.leaseBreakTime = st + breakPeriod]
          ELSE res)

\* breakContainerLease(context, account, container, breakPeriod, options)
breakContainerLease(db, st, container, breakPeriod, cond) ==
  LET read == ContainerLeaseRead(db, st, container, cond)
  IN  ContainerLeaseWrite(db, st, container, read,
                          LeaseBreak(read.lease, st, breakPeriod))

\* changeContainerLease(context, account, container, leaseId, proposedLeaseId, options)
changeContainerLease(db, st, container, leaseId, proposedLeaseId, cond) ==
  LET read == ContainerLeaseRead(db, st, container, cond)
  IN  ContainerLeaseWrite(db, st, container, read,
                          LeaseChange(read.lease, st, leaseId, proposedLeaseId))

(***************************************************************************)
(* Listing containers.  Names are strings over a small alphabet, compared  *)
(* character by character as the database compares them.                   *)
(***************************************************************************)
\* the characters of the names, in collation order
Alphabet == "12abc"

\* the place of a character in the collation order
CharRank(ch) == CHOOSE i \in 1..Len(Alphabet) : SubSeq(Alphabet, i, i) = ch

\* containerName > marker ([Op.gt]): marker sorts strictly before name
RECURSIVE NameLess(_, _)
NameLess(marker, name) ==
  IF name = "" THEN FALSE
  ELSE IF marker = "" THEN TRUE
  ELSE LET x == CharRank(SubSeq(marker, 1, 1))
           y == CharRank(SubSeq(name, 1, 1))
       IN  IF x # y THEN x < y
           ELSE NameLess(SubSeq(marker, 2, Len(marker)), SubSeq(name, 2, Len(name)))

\* containerName LIKE `${prefix}%` for a prefix of plain characters
HasPrefix(name, prefix) ==
  Len(prefix) <= Len(name) /\ SubSeq(name, 1, Len(prefix)) = prefix

\* order: [["containerName", "ASC"]]
RECURSIVE OrderByContainerName(_)
OrderByContainerName(rows) ==
  IF rows = {} THEN <<>>
  ELSE LET first == CHOOSE r \in rows :
                      \A s \in rows \ {r} : NameLess(r.containerName, s.containerName)
       IN  <<first>> \o OrderByContainerName(rows \ {first})

\* ContainersModel.findAll({limit, where, order}) of listContainers
FindContainersPage(db, prefix, marker, limit) ==
  LET found == {r \in db.containers :
                  /\ Len(prefix) > 0 => HasPrefix(r.containerName, prefix)
                  /\ marker # "" => NameLess(marker, r.containerName)}
      ordered == OrderByContainerName(found)
  IN  SubSeq(ordered, 1, Min(Len(ordered), limit))

\* leaseUpdateMapper of listContainers
ContainerLeaseUpdated(row, st) ==
  [row EXCEPT !.lease = LeaseSyncer(createLeaseState(row.lease, st))]

\* listContainers whose next marker is the name of the row it fetched past the
\* page, not of the last row of the page
listContainersMarkerPastPage(db, st, prefix, maxResults, marker) ==
  LET findResult == FindContainersPage(db, prefix, marker, maxResults + 1)
      n == Len(findResult)
  IN  IF n <= maxResults
        THEN [containers |-> [i \in 1..n |-> ContainerLeaseUpdated(findResult[i], st)],
              nextMarker |-> Undef]
        ELSE [containers |->
                [i \in 1..(n - 1) |-> ContainerLeaseUpdated(findResult[i], st)],
              nextMarker |-> findResult[n].containerName]

\* listContainers(context, account, prefix, maxResults, marker), for
\* maxResults >= 1: the page and the next marker (Undef for none)
listContainers(db, st, prefix, maxResults, marker) ==
  LET findResult == FindContainersPage(db, prefix, marker, maxResults + 1)
      n == Len(findResult)
  IN  IF n <= maxResults
        THEN [containers |-> [i \in 1..n |-> ContainerLeaseUpdated(findResult[i], st)],
              nextMarker |-> Undef]
        ELSE [containers |->
                [i \in 1..(n - 1) |-> ContainerLeaseUpdated(findResult[i], st)],
              nextMarker |-> findResult[n - 1].containerName]

(***************************************************************************)
(* The tag filter: Transform scans the filter text into a tree of tokens,  *)
(* TreeToSentence writes the tree out as the text of an expression and     *)
(* TreeToFunction makes the predicate on a blob's tags from that text.     *)
(* Positions count from 0 as in the source.  The text of the expression is *)
(* kept as the sequence of its lexemes.                                    *)
(***************************************************************************)
tagFilterOperators == {"=", ">=", "<=", ">", "<"}

\* where[pos]
CharAt(str, pos) == SubSeq(str, pos + 1, pos + 1)

\* where.substring(start, end)
substring(str, start, end) == SubSeq(str, start + 1, Min(end, Len(str)))

\* String.trimStart and String.trimEnd
RECURSIVE trimStart(_)
trimStart(str) ==
  IF str # "" /\ SubSeq(str, 1, 1) = " " THEN trimStart(SubSeq(str, 2, Len(str)))
  ELSE str

RECURSIVE trimEnd(_)
trimEnd(str) ==
  IF str # "" /\ SubSeq(str, Len(str), Len(str)) = " "
    THEN trimEnd(SubSeq(str, 1, Len(str) - 1))
    ELSE str

\* for (; p < where.length; ++p) if (where[p] is one of stops) break;
ScanTo(str, from, stops) ==
  CHOOSE p \in from..Len(str) :
    /\ p = Len(str) \/ CharAt(str, p) \in stops
    /\ \A q \in from..(p - 1) : CharAt(str, q) \notin stops

\* for (; p < where.length && where[p] === ' '; ++p);
SkipSpaces(str, from) ==
  CHOOSE p \in from..Len(str) :
    /\ p = Len(str) \/ CharAt(str, p) # " "
    /\ \A q \in from..(p - 1) : CharAt(str, q) = " "

\* the tokens of a tree
FilterTreeToken(tokens) == [tokenType |-> "TreeToken", token |-> tokens]
TagComparingToken(key, operator, value) ==
  [tokenType |-> "TagComparingToken", key |-> key, operator |-> operator,
   value |-> value]
ConnectorToken(connector) == [tokenType |-> "ConnectorToken", connector |-> connector]

\* the tokens with the last one, the comparison under construction, changed
WithLast(tokens, token) == [tokens EXCEPT ![Len(tokens)] = token]

\* case TransferState.Connector that lets a filter end on its connector
TransformConnectorAtEnd(str, p) ==
  LET connectorPos == ScanTo(str, p.pos, {" "})
  IN  IF ~p.defined THEN [p EXCEPT !.err = "TypeError"]
      ELSE [p EXCEPT !.currentTree =
                        Append(@, ConnectorToken(substring(str, p.pos, connectorPos))),
                     !.pos = SkipSpaces(str, connectorPos),
                     !.state = "Start"]

\* case TransferState.Connector that leaves the connector where it is
TransformConnectorStuck(str, p) ==
  IF ~p.defined THEN [p EXCEPT !.err = "TypeError"]
  ELSE [p EXCEPT !.currentTree = Append(@, ConnectorToken("")), !.state = "AfterValue"]

\* case TransferState.Connector of the loop below
TransformConnector(str, p) ==
  LET connectorPos == ScanTo(str, p.pos, {" "})
      next == SkipSpaces(str, connectorPos)
  IN  IF ~p.defined THEN [p EXCEPT !.err = "TypeError"]
      ELSE IF next = Len(str) THEN [p EXCEPT !.err = "Invalid filter"]
      ELSE [p EXCEPT !.currentTree =
                        Append(@, ConnectorToken(substring(str, p.pos, connectorPos))),
                     !.pos = next,
                     !.state = "Start"]

\* one turn of the while loop of Transform.  p holds pos, state,
\* expectingRightEmbrace, treeStack (the token lists of the trees left open,
\* each waiting for the tree under construction as its last token),
\* currentTree (the token list of the tree under construction), whether
\* currentTree is defined (treeStack.pop() of an empty stack is undefined) and
\* the error thrown
TransformStep(str, p) ==
  CASE p.state = "Start" ->
         [p EXCEPT !.state = IF CharAt(str, p.pos) = "(" THEN "LeftEmbrace" ELSE "Key"]
    [] p.state = "LeftEmbrace" ->
         IF ~p.defined THEN [p EXCEPT !.err = "TypeError"]
         ELSE [p EXCEPT !.expectingRightEmbrace = @ + 1,
                        !.treeStack = Append(@, p.currentTree),
                        !.currentTree = <<>>,
                        !.pos = @ + 1,
                        !.state = "Start"]
    [] p.state = "Key" ->
         LET keyPos == ScanTo(str, p.pos, {"=", "<", ">"})
             key == trimStart(trimEnd(substring(str, p.pos, keyPos)))
         IN  IF ~p.defined THEN [p EXCEPT !.err = "TypeError"]
             ELSE [p EXCEPT !.currentTree = Append(@, TagComparingToken(key, Undef, Undef)),
                            !.pos = keyPos,
                            !.state = "Operator"]
    [] p.state = "Operator" ->
         LET opPos == ScanTo(str, p.pos, {"'"})
             operator == trimStart(trimEnd(substring(str, p.pos, opPos)))
             last == p.currentTree[Len(p.currentTree)]
         IN  IF operator \notin tagFilterOperators
               THEN [p EXCEPT !.err = "Invalid operator"]
               ELSE [p EXCEPT !.currentTree =
                                 WithLast(@, [last EXCEPT !.operator = operator]),
                              !.pos = opPos,
                              !.state = "Value"]
    [] p.state = "Value" ->
         LET valuePos == ScanTo(str, p.pos + 1, {"'"})
             value == trimStart(trimEnd(substring(str, p.pos, valuePos + 1)))
             last == p.currentTree[Len(p.currentTree)]
         IN  [p EXCEPT !.currentTree = WithLast(@, [last EXCEPT !.value = value]),
                       !.pos = valuePos + 1,
                       !.state = "AfterValue"]
    [] p.state = "AfterValue" ->
         LET afterPos == SkipSpaces(str, p.pos)
         IN  IF afterPos = Len(str) THEN [p EXCEPT !.pos = afterPos]
             ELSE IF CharAt(str, afterPos) = ")"
               THEN [p EXCEPT !.pos = afterPos, !.state = "RightEmbrace"]
             ELSE [p EXCEPT !.pos = afterPos, !.state = "Connector"]
    [] p.state = "Connector" -> TransformConnector(str, p)
    [] p.state = "RightEmbrace" ->
         IF p.treeStack = <<>>
           THEN [p EXCEPT !.expectingRightEmbrace = @ - 1,
                          !.defined = FALSE,
                          !.currentTree = <<>>,
                          !.pos = @ + 1,
                          !.state = "AfterValue"]
           ELSE [p EXCEPT !.expectingRightEmbrace = @ - 1,
                          !.currentTree =
                             Append(p.treeStack[Len(p.treeStack)],
                                    FilterTreeToken(p.currentTree)),
                          !.treeStack = SubSeq(@, 1, Len(@) - 1),
                          !.pos = @ + 1,
                          !.state = "AfterValue"]

\* while (pos < where.length) { switch (state) ... }
RECURSIVE TransformLoop(_, _)
TransformLoop(str, p) ==
  IF p.err # Ok \/ p.pos >= Len(str) THEN p
  ELSE TransformLoop(str, TransformStep(str, p))

\* Transform(where): the error thrown, and the tree returned when there is none
Transform(str) ==
  LET p == TransformLoop(str, [pos |-> 0, state |-> "Start",
                               expectingRightEmbrace |-> 0, treeStack |-> <<>>,
                               currentTree |-> <<>>, defined |-> TRUE, err |-> Ok])
  IN  IF p.err # Ok THEN [err |-> p.err, tree |-> FilterTreeToken(<<>>)]
      ELSE IF p.expectingRightEmbrace # 0
        THEN [err |-> "Expecting ')", tree |-> FilterTreeToken(<<>>)]
      ELSE [err |-> Ok, tree |-> FilterTreeToken(p.currentTree)]

\* convertOperator that turns >= and <= into > and <
convertOperatorStrict(input) ==
  CASE input = "=" -> "==="
    [] input = ">" -> ">"
    [] input = "<" -> "<"
    [] input = ">=" -> ">"
    [] input = "<=" -> "<"
    [] OTHER -> "Invalid operator"

\* convertOperator(input): the operator of the expression, or the error thrown
convertOperator(input) ==
  CASE input = "=" -> "==="
    [] input = ">" -> ">"
    [] input = "<" -> "<"
    [] input = ">=" -> ">="
    [] input = "<=" -> "<="
    [] OTHER -> "Invalid operator"

\* convertConnector(input)
convertConnector(input) ==
  CASE input.connector = "and" -> "&&"
    [] input.connector = "or" -> "||"
    [] OTHER -> "Invalid connector"

\* a lexeme of the expression text
Lexeme(lex, key, operator, value) ==
  [lex |-> lex, key |-> key, operator |-> operator, value |-> value]

\* TagComparingToSentence(tagComparing):
\* ( tags.key !== undefined && tags.key operator value )
TagComparingToSentence(tagComparing) ==
  IF convertOperator(tagComparing.operator) = "Invalid operator"
    THEN [err |-> "Invalid operator", sentence |-> <<>>]
    ELSE [err |-> Ok,
          sentence |->
            <<Lexeme("(", "", "", ""),
              Lexeme("defined", tagComparing.key, "", ""),
              Lexeme("&&", "", "", ""),
              Lexeme("compare", tagComparing.key,
                     convertOperator(tagComparing.operator), tagComparing.value),
              Lexeme(")", "", "", "")>>]

\* TreeToSentence(tree): "(", the sentence of each token in turn, ")"; the
\* first error thrown ends it
RECURSIVE TreeToSentence(_)
RECURSIVE TokensToSentence(_)
TokensToSentence(tokens) ==
  IF tokens = <<>> THEN [err |-> Ok, sentence |-> <<>>]
  ELSE LET aToken == Head(tokens)
           first ==
             CASE aToken.tokenType = "TreeToken" -> TreeToSentence(aToken)
               [] aToken.tokenType = "TagComparingToken" -> TagComparingToSentence(aToken)
               [] aToken.tokenType = "ConnectorToken" ->
                    IF convertConnector(aToken) = "Invalid connector"
                      THEN [err |-> "Invalid connector", sentence |-> <<>>]
                      ELSE [err |-> Ok,
                            sentence |-> <<Lexeme(convertConnector(aToken), "", "", "")>>]
           rest == TokensToSentence(Tail(tokens))
       IN  IF first.err # Ok THEN first
           ELSE IF rest.err # Ok THEN rest
           ELSE [err |-> Ok, sentence |-> first.sentence \o rest.sentence]

TreeToSentence(tree) ==
  LET inner == TokensToSentence(tree.token)
  IN  IF inner.err # Ok THEN inner
      ELSE [err |-> Ok,
            sentence |-> <<Lexeme("(", "", "", "")>> \o inner.sentence
                           \o <<Lexeme(")", "", "", "")>>]

\* the characters of the filters and tag values, in the order of their code
\* units, by which the expression compares strings
CodeUnits == " '()12<=>@abcdnorx"

\* x < y on strings
RECURSIVE StringLess(_, _)
StringLess(x, y) ==
  IF y = "" THEN FALSE
  ELSE IF x = "" THEN TRUE
  ELSE LET i == CHOOSE k \in 1..Len(CodeUnits) : SubSeq(CodeUnits, k, k) = SubSeq(x, 1, 1)
           j == CHOOSE k \in 1..Len(CodeUnits) : SubSeq(CodeUnits, k, k) = SubSeq(y, 1, 1)
       IN  IF i # j THEN i < j
           ELSE StringLess(SubSeq(x, 2, Len(x)), SubSeq(y, 2, Len(y)))

\* the text after "tags." is a name the expression can read a property by
IsIdentifierName(key) ==
  /\ key # ""
  /\ SubSeq(key, 1, 1) \in {"a", "b", "c", "d", "n", "o", "r", "x"}
  /\ \A i \in 1..Len(key) :
       SubSeq(key, i, i) \in {"a", "b", "c", "d", "n", "o", "r", "x", "1", "2"}

\* the text of the value is one whole string literal, or the word undefined
IsLiteral(value) ==
  \/ value = Undef
  \/ /\ Len(value) >= 2
     /\ SubSeq(value, 1, 1) = "'" /\ SubSeq(value, Len(value), Len(value)) = "'"
     /\ \A i \in 2..(Len(value) - 1) : SubSeq(value, i, i) # "'"

\* tags[key] after the tag set of the item is read into tags
TagValue(tags, key) == IF key \in DOMAIN tags THEN tags[key] ELSE Undef

\* tags.key operator value, for a literal value
Compare(tagValue, operator, value) ==
  LET literal == SubSeq(value, 2, Len(value) - 1)
  IN  IF tagValue = Undef \/ value = Undef THEN FALSE
      ELSE CASE operator = "===" -> tagValue = literal
             [] operator = "<" -> StringLess(tagValue, literal)
             [] operator = ">" -> StringLess(literal, tagValue)
             [] operator = "<=" -> tagValue = literal \/ StringLess(tagValue, literal)
             [] operator = ">=" -> tagValue = literal \/ StringLess(literal, tagValue)

\* the expression text read as the language reads it, from lexeme i on: && binds
\* tighter than ||, parentheses group.  ok is whether the text reads as an
\* expression, val its value on the tags, next the lexeme after it
NotAnExpression == [ok |-> FALSE, val |-> FALSE, next |-> 0]

RECURSIVE EvalOr(_, _, _)
RECURSIVE EvalAnd(_, _, _)
RECURSIVE EvalPrimary(_, _, _)
EvalPrimary(s, i, tags) ==
  IF i > Len(s) THEN NotAnExpression
  ELSE CASE s[i].lex = "(" ->
              LET r == EvalOr(s, i + 1, tags)
              IN  IF r.ok /\ r.next <= Len(s) /\ s[r.next].lex = ")"
                    THEN [r EXCEPT !.next = @ + 1]
                    ELSE NotAnExpression
         [] s[i].lex = "defined" ->
              IF IsIdentifierName(s[i].key)
                THEN [ok |-> TRUE, val |-> TagValue(tags, s[i].key) # Undef,
                      next |-> i + 1]
                ELSE NotAnExpression
         [] s[i].lex = "compare" ->
              IF IsIdentifierName(s[i].key) /\ IsLiteral(s[i].value)
                THEN [ok |-> TRUE,
                      val |-> Compare(TagValue(tags, s[i].key), s[i].operator,
                                      s[i].value),
                      next |-> i + 1]
                ELSE NotAnExpression
         [] OTHER -> NotAnExpression

EvalAnd(s, i, tags) ==
  LET l == EvalPrimary(s, i, tags)
  IN  IF ~l.ok THEN NotAnExpression
      ELSE IF l.next <= Len(s) /\ s[l.next].lex = "&&"
        THEN LET r == EvalAnd(s, l.next + 1, tags)
             IN  IF r.ok THEN [r EXCEPT !.val = l.val /\ r.val] ELSE NotAnExpression
      ELSE l

EvalOr(s, i, tags) ==
  LET l == EvalAnd(s, i, tags)
  IN  IF ~l.ok THEN NotAnExpression
      ELSE IF l.next <= Len(s) /\ s[l.next].lex = "||"
        THEN LET r == EvalOr(s, l.next + 1, tags)
             IN  IF r.ok THEN [r EXCEPT !.val = l.val \/ r.val] ELSE NotAnExpression
      ELSE l

\* new Function("item", "... return judgement;") throws a SyntaxError
SyntaxError(sentence) ==
  LET r == EvalOr(sentence, 1, <<>>)
  IN  ~(r.ok /\ r.next = Len(sentence) + 1)

\* TreeToFunction(tree): the error thrown to the caller, or the function
\* returned: the one that returns true, or the one that returns the judgement
TreeToFunction(tree) ==
  LET judgement == TreeToSentence(tree)
  IN  IF judgement.err # Ok
        THEN [err |-> judgement.err, returnTrue |-> FALSE, judgement |-> <<>>]
      ELSE IF SyntaxError(judgement.sentence)
        THEN [err |-> Ok, returnTrue |-> TRUE, judgement |-> <<>>]
      ELSE [err |-> Ok, returnTrue |-> FALSE, judgement |-> judgement.sentence]

\* the function returned, called on an item with these tags
Call(functionReturned, tags) ==
  IF functionReturned.returnTrue THEN TRUE
  ELSE EvalOr(functionReturned.judgement, 1, tags).val

\* analysis(where)
analysis(str) ==
  LET tree == Transform(str)
  IN  IF tree.err # Ok
        THEN [err |-> tree.err, returnTrue |-> FALSE, judgement |-> <<>>]
        ELSE TreeToFunction(tree.tree)

(***************************************************************************)
(* Blob and block operations.                                              *)
(***************************************************************************)
\* assertContainerExists(context, account, container, t)
assertContainerExists(db, container) ==
  IF FindContainer(db, container) = {} THEN "ContainerNotFound" ELSE Ok

\* Buffer.from(name, "base64").length of an unpadded base64 name
Base64DecodedLength(name) == (Len(name) * 3) \div 4

\* String.toLowerCase on the commit types a request can carry
toLowerCase(str) ==
  CASE str = "Uncommitted" -> "uncommitted"
    [] str = "Committed" -> "committed"
    [] str = "Latest" -> "latest"
    [] OTHER -> str

\* the live staged blocks of a blob, in id order
BlocksOf(db, container, blob) ==
  LET Keep(r) == r.containerName = container /\ r.blobName = blob /\ r.deleting = 0
  IN  SelectSeq(db.blocks, Keep)

\* createBlob(context, blob, leaseAccessConditions, modifiedAccessConditions)
createBlob(db, st, blob, leaseId, cond) ==
  LET e0 == assertContainerExists(db, blob.containerName)
      rows == FindCommittedBlob(db, blob.containerName, blob.blobName, blob.snapshot)
      e1 == validateWriteConditions(cond, rows)
  IN  IF e0 # Ok THEN Fail(db, e0)
      ELSE IF e1 # Ok THEN Fail(db, e1)
      ELSE IF cond.ifNoneMatch = AnyEtag /\ rows # {} THEN Fail(db, "BlobAlreadyExists")
      ELSE IF rows = {} THEN Done(UpsertBlob(db, blob))
      ELSE LET row == CHOOSE r \in rows : TRUE
               ls == createLeaseState(row.lease, st)
               e2 == WriteLeaseValidator(ls, leaseId)
           IN  IF e2 # Ok THEN Fail(db, e2)
               ELSE IF row.accessTier = "Archive" THEN Fail(db, "BlobArchived")
               ELSE Done(UpsertBlob(db, [blob EXCEPT !.lease = WriteLeaseSyncer(ls)]))

\* stageBlock that writes the block row before it validates the lease, outside
\* any transaction: a failed validation leaves the row written
stageBlockWriteFirst(db, st, block, leaseId) ==
  LET rows == FindBlob(db, block.containerName, block.blobName, BaseSnapshot)
      row == CHOOSE r \in rows : TRUE
      e2 == IF rows # {} /\ row.isCommitted
              THEN WriteLeaseValidator(createLeaseState(row.lease, st), leaseId)
              ELSE Ok
  IN  IF assertContainerExists(db, block.containerName) # Ok
        THEN Fail(db, "ContainerNotFound")
      ELSE IF e2 # Ok THEN Fail(UpsertBlock(db, block), e2)
      ELSE Done(UpsertBlock(db, block))

\* stageBlock that never looks at the lease of the blob it stages for
stageBlockUnguarded(db, st, block, leaseId) ==
  IF assertContainerExists(db, block.containerName) # Ok
    THEN Fail(db, "ContainerNotFound")
    ELSE IF FindBlob(db, block.containerName, block.blobName, BaseSnapshot) = {}
      THEN Fail(db, "BlobNotFound")
      ELSE Done(UpsertBlock(db, block))

\* stageBlock that stores the block and no row for a blob that has none
stageBlockWithoutBlobRow(db, st, block, leaseId) ==
  LET e0 == assertContainerExists(db, block.containerName)
      rows == FindBlob(db, block.containerName, block.blobName, BaseSnapshot)
      staged == BlocksOf(db, block.containerName, block.blobName)
  IN  IF e0 # Ok THEN Fail(db, e0)
      ELSE IF rows # {}
        THEN LET row == CHOOSE r \in rows : TRUE
                 e2 == IF row.isCommitted
                         THEN WriteLeaseValidator(createLeaseState(row.lease, st), leaseId)
                         ELSE Ok
             IN  IF e2 # Ok THEN Fail(db, e2)
                 ELSE IF staged # <<>>
                         /\ Base64DecodedLength(staged[1].blockName)
                              # Base64DecodedLength(block.blockName)
                   THEN Fail(db, "InvalidBlobOrBlock")
                 ELSE Done(UpsertBlock(db, block))
        ELSE Done(UpsertBlock(db, block))

\* stageBlock(context, block, leaseAccessConditions)
stageBlock(db, st, block, leaseId) ==
  LET e0 == assertContainerExists(db, block.containerName)
      rows == FindBlob(db, block.containerName, block.blobName, BaseSnapshot)
      staged == BlocksOf(db, block.containerName, block.blobName)
      newBlob ==
        [containerName |-> block.containerName, blobName |-> block.blobName,
         snapshot |-> BaseSnapshot, deleting |-> 0, isCommitted |-> FALSE,
         etag |-> newEtag(db), lastModified |-> st, creationTime |-> st,
         blobType |-> "BlockBlob", accessTier |-> Undef, contentLength |-> 0,
         contentType |-> Undef, metadata |-> Undef, blobTags |-> Undef,
         committedBlocksInOrder |-> <<>>, lease |-> ClearedLease]
  IN  IF e0 # Ok THEN Fail(db, e0)
      ELSE IF rows # {}
        THEN LET row == CHOOSE r \in rows : TRUE
                 e2 == IF row.isCommitted
                         THEN WriteLeaseValidator(createLeaseState(row.lease, st), leaseId)
                         ELSE Ok
             IN  IF e2 # Ok THEN Fail(db, e2)
                 ELSE IF staged # <<>>
                         /\ Base64DecodedLength(staged[1].blockName)
                              # Base64DecodedLength(block.blockName)
                   THEN Fail(db, "InvalidBlobOrBlock")
                 ELSE Done(UpsertBlock(db, block))
        ELSE Done(UpsertBlock(UpsertBlob(EtagTaken(db), newBlob), block))

\* the committed block of that name, as pCommittedBlocksMap.get gives it: the
\* last entry of the list under the name; <<>> when there is none
CommittedBlockNamed(list, name) ==
  LET idx == {i \in 1..Len(list) : list[i].name = name}
  IN  IF idx = {} THEN <<>>
      ELSE <<list[CHOOSE i \in idx : \A j \in idx : j <= i]>>

\* the staged block of that name, as pUncommittedBlocksMap.get gives it
UncommittedBlockNamed(staged, name) ==
  LET idx == {i \in 1..Len(staged) : staged[i].blockName = name}
  IN  IF idx = {} THEN <<>>
      ELSE LET b == staged[CHOOSE i \in idx : TRUE]
           IN  <<[name |-> b.blockName, size |-> b.size, persistency |-> b.persistency]>>

\* ResolveBlock with an unknown commit type taken as "latest"
ResolveBlockAnyType(item, committed, staged) ==
  LET u == UncommittedBlockNamed(staged, item.blockName)
      c == CommittedBlockNamed(committed, item.blockName)
  IN  CASE toLowerCase(item.blockCommitType) = "uncommitted" -> u
        [] toLowerCase(item.blockCommitType) = "committed" -> c
        [] OTHER -> IF u # <<>> THEN u ELSE c

\* ResolveBlock that looks a "latest" item up in the committed list first
ResolveBlockCommittedFirst(item, committed, staged) ==
  LET type == toLowerCase(item.blockCommitType)
      u == UncommittedBlockNamed(staged, item.blockName)
      c == CommittedBlockNamed(committed, item.blockName)
  IN  CASE type = "uncommitted" -> u
        [] type = "committed" -> c
        [] type = "latest" -> IF c # <<>> THEN c ELSE u
        [] OTHER -> <<>>

\* one item of the block list resolved: <<block>>, or <<>> for a bad request
ResolveBlock(item, committed, staged) ==
  LET type == toLowerCase(item.blockCommitType)
      u == UncommittedBlockNamed(staged, item.blockName)
      c == CommittedBlockNamed(committed, item.blockName)
  IN  CASE type = "uncommitted" -> u
        [] type = "committed" -> c
        [] type = "latest" -> IF u # <<>> THEN u ELSE c
        [] OTHER -> <<>>

\* the selectedBlockList of a block list every item of which resolves
RECURSIVE SelectBlocks(_, _, _)
SelectBlocks(blockList, committed, staged) ==
  IF blockList = <<>> THEN <<>>
  ELSE ResolveBlock(Head(blockList), committed, staged)
         \o SelectBlocks(Tail(blockList), committed, staged)

\* a content length that takes the size of the first selected block alone
SizeOfFirst(list) == IF list = <<>> THEN 0 ELSE Head(list).size

\* selectedBlockList.map(size).reduce(sum, 0)
RECURSIVE SumSizes(_)
SumSizes(list) ==
  IF list = <<>> THEN 0 ELSE Head(list).size + SumSizes(Tail(list))

\* a commit that destroys the block rows of the blob where it should mark them
DestroyBlocksOfBlob(db, container, blob) ==
  LET Keep(r) == ~(r.containerName = container /\ r.blobName = blob)
  IN  [db EXCEPT !.blocks = SelectSeq(db.blocks, Keep)]

\* listUncommittedBlockPersistencyChunks(marker, maxResults) with the default
\* marker and a page that holds every row: the locators of the block rows
\* with deleting = 0, in id order
listUncommittedBlockPersistencyChunks(db) ==
  LET Live(r) == r.deleting = 0
      res == SelectSeq(db.blocks, Live)
  IN  [i \in 1..Len(res) |-> res[i].persistency]

\* BlocksModel.update({deleting: literal("deleting + 1")}, {where: {..., blobName}})
MarkBlocksDeleting(db, container, blob) ==
  [db EXCEPT !.blocks =
     [i \in 1..Len(db.blocks) |->
        IF db.blocks[i].containerName = container /\ db.blocks[i].blobName = blob
          THEN [db.blocks[i] EXCEPT !.deleting = db.blocks[i].deleting + 1]
          ELSE db.blocks[i]]]

\* commitBlockList that stores the lease the blob had
commitBlockListKeepsLease(db, st, blob, blockList, leaseId, cond) ==
  LET e0 == assertContainerExists(db, blob.containerName)
      rows == FindCommittedBlob(db, blob.containerName, blob.blobName, blob.snapshot)
      e1 == validateWriteConditions(cond, rows)
      row == CHOOSE r \in rows : TRUE
      e2 == IF rows = {} THEN Ok
            ELSE WriteLeaseValidator(createLeaseState(row.lease, st), leaseId)
      committed == IF rows = {} THEN <<>> ELSE row.committedBlocksInOrder
      staged == BlocksOf(db, blob.containerName, blob.blobName)
      selectedBlockList == SelectBlocks(blockList, committed, staged)
      commitBlockBlob ==
        [blob EXCEPT !.committedBlocksInOrder = selectedBlockList,
                     !.creationTime = IF rows # {} THEN row.creationTime ELSE st,
                     !.contentLength = SumSizes(selectedBlockList),
                     !.blobType = "BlockBlob",
                     !.lease = IF rows # {} THEN row.lease ELSE ClearedLease]
  IN  IF e0 # Ok THEN Fail(db, e0)
      ELSE IF e1 # Ok THEN Fail(db, e1)
      ELSE IF rows # {} /\ cond.ifNoneMatch = AnyEtag THEN Fail(db, "BlobAlreadyExists")
      ELSE IF e2 # Ok THEN Fail(db, e2)
      ELSE IF \E i \in 1..Len(blockList) :
                 ResolveBlock(blockList[i], committed, staged) = <<>>
        THEN Fail(db, "InvalidBlockList")
      ELSE Done(MarkBlocksDeleting(UpsertBlob(db, commitBlockBlob),
                                   blob.containerName, blob.blobName))

\* commitBlockList(context, blob, blockList, leaseAccessConditions,
\* modifiedAccessConditions)
commitBlockList(db, st, blob, blockList, leaseId, cond) ==
  LET e0 == assertContainerExists(db, blob.containerName)
      rows == FindCommittedBlob(db, blob.containerName, blob.blobName, blob.snapshot)
      e1 == validateWriteConditions(cond, rows)
      row == CHOOSE r \in rows : TRUE
      e2 == IF rows = {} THEN Ok
            ELSE WriteLeaseValidator(createLeaseState(row.lease, st), leaseId)
      committed == IF rows = {} THEN <<>> ELSE row.committedBlocksInOrder
      staged == BlocksOf(db, blob.containerName, blob.blobName)
      creationTime ==
        IF rows # {} /\ row.creationTime # NoTime THEN row.creationTime
        ELSE IF blob.creationTime # NoTime THEN blob.creationTime
        ELSE st
      selectedBlockList == SelectBlocks(blockList, committed, staged)
      commitBlockBlob ==
        [blob EXCEPT !.committedBlocksInOrder = selectedBlockList,
                     !.creationTime = creationTime,
                     !.lastModified =
                        IF blob.lastModified # NoTime THEN blob.lastModified ELSE st,
                     !.contentLength = SumSizes(selectedBlockList),
                     !.blobType = "BlockBlob",
                     !.lease = ClearedLease]
  IN  IF e0 # Ok THEN Fail(db, e0)
      ELSE IF e1 # Ok THEN Fail(db, e1)
      ELSE IF rows # {} /\ cond.ifNoneMatch = AnyEtag THEN Fail(db, "BlobAlreadyExists")
      ELSE IF e2 # Ok THEN Fail(db, e2)
      ELSE IF \E i \in 1..Len(blockList) :
                 ResolveBlock(blockList[i], committed, staged) = <<>>
        THEN Fail(db, "InvalidBlockList")
      ELSE Done(MarkBlocksDeleting(UpsertBlob(db, commitBlockBlob),
                                   blob.containerName, blob.blobName))

\* convertDateTimeStringMsTo7Digital(startTime.toISOString()): the snapshot id
\* of a request time, the time rendered with seven fractional digits where
\* the clock has three
SnapshotTime(st) == st * 10000

\* createSnapshot that copies the lease of the base blob into the snapshot
createSnapshotKeepsLease(db, st, container, blob, leaseId, metadata, cond) ==
  LET e0 == assertContainerExists(db, container)
      rows == FindCommittedBlob(db, container, blob, BaseSnapshot)
      e1 == validateReadConditions(cond, rows)
      row == CHOOSE r \in rows : TRUE
  IN  IF e0 # Ok THEN Fail(db, e0)
      ELSE IF e1 # Ok THEN Fail(db, e1)
      ELSE IF rows = {} THEN Fail(db, "BlobNotFound")
      ELSE IF ReadLeaseValidator(createLeaseState(row.lease, st), leaseId) # Ok
        THEN Fail(db, ReadLeaseValidator(createLeaseState(row.lease, st), leaseId))
      ELSE Done(UpsertBlob(db, [row EXCEPT !.snapshot = SnapshotTime(st),
                                           !.metadata = IF metadata # Undef
                                                          THEN metadata
                                                          ELSE row.metadata]))

\* createSnapshot(context, account, container, blob, leaseAccessConditions,
\* metadata, modifiedAccessConditions)
createSnapshot(db, st, container, blob, leaseId, metadata, cond) ==
  LET e0 == assertContainerExists(db, container)
      rows == FindCommittedBlob(db, container, blob, BaseSnapshot)
      e1 == validateReadConditions(cond, rows)
  IN  IF e0 # Ok THEN Fail(db, e0)
      ELSE IF e1 # Ok THEN Fail(db, e1)
      ELSE IF rows = {} THEN Fail(db, "BlobNotFound")
      ELSE LET row == CHOOSE r \in rows : TRUE
               e2 == ReadLeaseValidator(createLeaseState(row.lease, st), leaseId)
               snapshotBlob ==
                 [row EXCEPT !.snapshot = SnapshotTime(st),
                             !.metadata = IF metadata # Undef THEN metadata
                                          ELSE row.metadata,
                             !.lease = ClearedLease]
           IN  IF e2 # Ok THEN Fail(db, e2)
               ELSE Done(UpsertBlob(db, snapshotBlob))

\* deleteBlob that deletes the base blob alone without counting its snapshots
deleteBlobSnapshotsUncounted(db, st, container, blob, snapshot, deleteSnapshots, leaseId, cond) ==
  LET e0 == assertContainerExists(db, container)
      rows == FindCommittedBlob(db, container, blob, snapshot)
      e1 == validateWriteConditions(cond, rows)
      row == CHOOSE r \in rows : TRUE
  IN  IF e0 # Ok THEN Fail(db, e0)
      ELSE IF e1 # Ok THEN Fail(db, e1)
      ELSE IF rows = {} THEN Fail(db, "BlobNotFound")
      ELSE IF snapshot = BaseSnapshot
              /\ WriteLeaseValidator(createLeaseState(row.lease, st), leaseId) # Ok
        THEN Fail(db, WriteLeaseValidator(createLeaseState(row.lease, st), leaseId))
      ELSE IF snapshot # BaseSnapshot /\ deleteSnapshots # Undef
        THEN Fail(db, "InvalidOperation")
      ELSE IF snapshot # BaseSnapshot
        THEN Done(deleteSnapshotFromSQL(db, container, blob, row.snapshot))
      ELSE IF deleteSnapshots = "only"
        THEN Done(deleteAllSnapshotsFromSQL(db, container, blob))
      ELSE Done(deleteBlockFromSQL(deleteBlobFromSQL(db, container, blob),
                                   container, blob))

\* deleteBlob(context, account, container, blob, options); snapshot is
\* BaseSnapshot and deleteSnapshots is Undef when the option is not given
deleteBlob(db, st, container, blob, snapshot, deleteSnapshots, leaseId, cond) ==
  LET e0 == assertContainerExists(db, container)
      rows == FindCommittedBlob(db, container, blob, snapshot)
      e1 == validateWriteConditions(cond, rows)
      againstBaseBlob == snapshot = BaseSnapshot
      count == Cardinality({r \in db.blobs : /\ r.containerName = container
                                             /\ r.blobName = blob /\ r.deleting = 0})
  IN  IF e0 # Ok THEN Fail(db, e0)
      ELSE IF e1 # Ok THEN Fail(db, e1)
      ELSE IF rows = {} THEN Fail(db, "BlobNotFound")
      ELSE LET row == CHOOSE r \in rows : TRUE
               e2 == IF againstBaseBlob
                       THEN WriteLeaseValidator(createLeaseState(row.lease, st), leaseId)
                       ELSE Ok
           IN  IF e2 # Ok THEN Fail(db, e2)
               ELSE IF ~againstBaseBlob /\ deleteSnapshots # Undef
                 THEN Fail(db, "InvalidOperation")
               ELSE IF againstBaseBlob /\ deleteSnapshots = Undef
                 THEN IF count > 1 THEN Fail(db, "SnapshotsPresent")
                      ELSE Done(deleteBlockFromSQL(
                                  deleteBlobFromSQL(db, container, blob),
                                  container, blob))
               ELSE IF ~againstBaseBlob
                 THEN Done(deleteSnapshotFromSQL(db, container, blob, row.snapshot))
               ELSE IF deleteSnapshots = "include"
                 THEN Done(deleteBlockFromSQL(
                             deleteBlobFromSQL(db, container, blob), container, blob))
               ELSE IF deleteSnapshots = "only"
                 THEN Done(deleteAllSnapshotsFromSQL(db, container, blob))
               ELSE Done(db)

\* setBlobHTTPHeaders(context, account, container, blob, leaseAccessConditions,
\* blobHTTPHeaders, modifiedAccessConditions); blobHTTPHeaders is the content
\* type the headers carry, NoHeaders when the argument is undefined
NoHeaders == "no-headers"

setBlobHTTPHeaders(db, st, container, blob, leaseId, blobHTTPHeaders, cond) ==
  LET e0 == assertContainerExists(db, container)
      rows == FindCommittedBlob(db, container, blob, BaseSnapshot)
      e1 == validateWriteConditions(cond, rows)
  IN  IF e0 # Ok THEN Fail(db, e0)
      ELSE IF e1 # Ok THEN Fail(db, e1)
      ELSE IF rows = {} THEN Fail(db, "BlobNotFound")
      ELSE LET row == CHOOSE r \in rows : TRUE
               ls == createLeaseState(row.lease, st)
               e2 == WriteLeaseValidator(ls, leaseId)
               blobModel ==
                 [row EXCEPT !.lease = WriteLeaseSyncer(ls),
                             !.contentType = IF blobHTTPHeaders # NoHeaders
                                               THEN blobHTTPHeaders
                                               ELSE row.contentType,
                             !.etag = newEtag(db),
                             !.lastModified = st]
           IN  IF e2 # Ok THEN Fail(db, e2)
               ELSE Done(UpdateBlob(EtagTaken(db), container, blob, BaseSnapshot, blobModel))

\* setBlobMetadata that writes the metadata under the ETag the blob had
setBlobMetadataSameEtag(db, st, container, blob, leaseId, metadata, cond) ==
  LET rows == FindCommittedBlob(db, container, blob, BaseSnapshot)
      e1 == validateWriteConditions(cond, rows)
      row == CHOOSE r \in rows : TRUE
      ls == createLeaseState(row.lease, st)
  IN  IF assertContainerExists(db, container) # Ok THEN Fail(db, "ContainerNotFound")
      ELSE IF e1 # Ok THEN Fail(db, e1)
      ELSE IF rows = {} THEN Fail(db, "BlobNotFound")
      ELSE IF WriteLeaseValidator(ls, leaseId) # Ok
        THEN Fail(db, WriteLeaseValidator(ls, leaseId))
      ELSE Done([db EXCEPT !.blobs =
                   (db.blobs \ rows)
                     \cup {[row EXCEPT !.metadata = metadata, !.lastModified = st,
                                       !.lease = WriteLeaseSyncer(ls)]}])

\* setBlobMetadata that validates the lease id against the lease as it is
\* stored, not as it presents at the request's time
setBlobMetadataStoredLease(db, st, container, blob, leaseId, metadata, cond) ==
  LET e0 == assertContainerExists(db, container)
      rows == FindCommittedBlob(db, container, blob, BaseSnapshot)
      e1 == validateWriteConditions(cond, rows)
  IN  IF e0 # Ok THEN Fail(db, e0)
      ELSE IF e1 # Ok THEN Fail(db, e1)
      ELSE IF rows = {} THEN Fail(db, "BlobNotFound")
      ELSE LET row == CHOOSE r \in rows : TRUE
               e2 == WriteLeaseValidator(row.lease, leaseId)
               values == [metadata |-> metadata, lastModified |-> st,
                          etag |-> newEtag(db), lease |-> row.lease]
           IN  IF e2 # Ok THEN Fail(db, e2)
               ELSE Done(UpdateBlob(EtagTaken(db), container, blob, BaseSnapshot, values))

\* setBlobMetadata(context, account, container, blob, leaseAccessConditions,
\* metadata, modifiedAccessConditions)
setBlobMetadata(db, st, container, blob, leaseId, metadata, cond) ==
  LET e0 == assertContainerExists(db, container)
      rows == FindCommittedBlob(db, container, blob, BaseSnapshot)
      e1 == validateWriteConditions(cond, rows)
  IN  IF e0 # Ok THEN Fail(db, e0)
      ELSE IF e1 # Ok THEN Fail(db, e1)
      ELSE IF rows = {} THEN Fail(db, "BlobNotFound")
      ELSE LET row == CHOOSE r \in rows : TRUE
               ls == createLeaseState(row.lease, st)
               e2 == WriteLeaseValidator(ls, leaseId)
               values == [metadata |-> metadata, lastModified |-> st,
                          etag |-> newEtag(db), lease |-> WriteLeaseSyncer(ls)]
           IN  IF e2 # Ok THEN Fail(db, e2)
               ELSE Done(UpdateBlob(EtagTaken(db), container, blob, BaseSnapshot, values))

\* the first part the five blob lease operations share: read the committed
\* base blob and check the conditions; gives the error and the lease state
BlobLeaseRead(db, st, container, blob, cond) ==
  LET e0 == assertContainerExists(db, container)
      rows == FindCommittedBlob(db, container, blob, BaseSnapshot)
      e1 == validateWriteConditions(cond, rows)
  IN  IF e0 # Ok THEN [err |-> e0, lease |-> AvailableLease]
      ELSE IF e1 # Ok THEN [err |-> e1, lease |-> AvailableLease]
      ELSE IF rows = {} THEN [err |-> "BlobNotFound", lease |-> AvailableLease]
      ELSE [err |-> Ok,
            lease |-> createLeaseState((CHOOSE r \in rows : TRUE).lease, st)]

\* the second part they share: res is the outcome of the lease operation on
\* the lease that was read; on success the lease columns are written
BlobLeaseWrite(db, st, container, blob, read, res) ==
  IF read.err # Ok THEN Fail(db, read.err)
  ELSE IF res.err # Ok THEN Fail(db, res.err)
  ELSE DoneLease(UpdateBlob(db, container, blob, BaseSnapshot,
                            [lease |-> res.lease]),
                 res.lease.leaseId,
                 IF res.lease.leaseState = "breaking"
                    /\ res.lease.leaseBreakTime # NoTime
                   THEN res.lease.leaseBreakTime - st ELSE 0)

\* acquireBlobLease deciding on a lease read before the other writer's
\* transaction, as a read outside the transaction would
acquireBlobLeaseStaleRead(db, st, container, blob, duration, proposedLeaseId, cond) ==
  LET read == BlobLeaseRead(db, st, container, blob, cond)
  IN  BlobLeaseWrite(db, st, container, blob, read,
                     LeaseAcquire(AvailableLease, st, duration, proposedLeaseId))

\* acquireBlobLease(context, account, container, blob, duration,
\* proposedLeaseId, options)
acquireBlobLease(db, st, container, blob, duration, proposedLeaseId, cond) ==
  LET read == BlobLeaseRead(db, st, container, blob, cond)
  IN  BlobLeaseWrite(db, st, container, blob, read,
                     LeaseAcquire(read.lease, st, duration, proposedLeaseId))

\* releaseBlobLease(context, account, container, blob, leaseId, options)
releaseBlobLease(db, st, container, blob, leaseId, cond) ==
  LET read == BlobLeaseRead(db, st, container, blob, cond)
  IN  BlobLeaseWrite(db, st, container, blob, read,
                     LeaseRelease(read.lease, st, leaseId))

\* renewBlobLease that answers with the renewed lease and does not store it
renewBlobLeaseNotStored(db, st, container, blob, leaseId, cond) ==
  LET read == BlobLeaseRead(db, st, container, blob, cond)
      res == BlobLeaseWrite(db, st, container, blob, read,
                            LeaseRenew(read.lease, st, leaseId))
  IN  [res EXCEPT !.db = db]

\* renewBlobLease(context, account, container, blob, leaseId, options)
renewBlobLease(db, st, container, blob, leaseId, cond) ==
  LET read == BlobLeaseRead(db, st, container, blob, cond)
  IN  BlobLeaseWrite(db, st, container, blob, read,
                     LeaseRenew(read.lease, st, leaseId))

\* changeBlobLease(context, account, container, blob, leaseId,
\* proposedLeaseId, options)
changeBlobLease(db, st, container, blob, leaseId, proposedLeaseId, cond) ==
  LET read == BlobLeaseRead(db, st, container, blob, cond)
  IN  BlobLeaseWrite(db, st, container, blob, read,
                     LeaseChange(read.lease, st, leaseId, proposedLeaseId))

\* breakBlobLease that gives the blob a new ETag with the lease it writes
breakBlobLeaseNewEtag(db, st, container, blob, breakPeriod, cond) ==
  LET read == BlobLeaseRead(db, st, container, blob, cond)
      res == BlobLeaseWrite(db, st, container, blob, read,
                            LeaseBreak(read.lease, st, breakPeriod))
  IN  IF res.err # Ok THEN res
      ELSE [res EXCEPT !.db =
              UpdateBlob(EtagTaken(res.db), container, blob, BaseSnapshot,
                         [etag |-> newEtag(res.db), lastModified |-> st])]

\* breakBlobLease(context, account, container, blob, breakPeriod, options)
breakBlobLease(db, st, container, blob, breakPeriod, cond) ==
  LET read == BlobLeaseRead(db, st, container, blob, cond)
  IN  BlobLeaseWrite(db, st, container, blob, read,
                     LeaseBreak(read.lease, st, breakPeriod))

\* the tiers setTier accepts for a block blob
AccessTiers == {"Hot", "Cool", "Archive", "Cold"}

\* setTier(context, account, container, blob, tier, leaseAccessConditions)
setTier(db, st, container, blob, tier, leaseId) ==
  LET e0 == assertContainerExists(db, container)
      rows == FindCommittedBlob(db, container, blob, BaseSnapshot)
  IN  IF e0 # Ok THEN Fail(db, e0)
      ELSE IF rows = {} THEN Fail(db, "BlobNotFound")
      ELSE LET row == CHOOSE r \in rows : TRUE
               e2 == WriteLeaseValidator(createLeaseState(row.lease, st), leaseId)
               values == [accessTier |-> tier]
           IN  IF e2 # Ok THEN Fail(db, e2)
               ELSE IF row.snapshot # BaseSnapshot THEN Fail(db, "BlobSnapshotsPresent")
               ELSE IF ~(tier \in AccessTiers /\ row.blobType = "BlockBlob")
                 THEN Fail(db, "AccessTierNotSupportedForBlobType")
               ELSE Done(UpdateBlob(db, container, blob, BaseSnapshot, values))

\* setBlobTag(context, account, container, blob, snapshot,
\* leaseAccessConditions, tags, modifiedAccessConditions)
setBlobTag(db, st, container, blob, snapshot, leaseId, tags, cond) ==
  LET e0 == assertContainerExists(db, container)
      rows == FindCommittedBlob(db, container, blob, snapshot)
  IN  IF e0 # Ok THEN Fail(db, e0)
      ELSE IF rows = {} THEN Fail(db, "BlobNotFound")
      ELSE LET row == CHOOSE r \in rows : TRUE
               ls == createLeaseState(row.lease, st)
               e2 == WriteLeaseValidator(ls, leaseId)
               values == [blobTags |-> tags, lease |-> WriteLeaseSyncer(ls)]
           IN  IF e2 # Ok THEN Fail(db, e2)
               ELSE Done(UpdateBlob(db, container, blob, snapshot, values))

\* downloadBlob(context, account, container, blob, snapshot,
\* leaseAccessConditions, modifiedAccessConditions): the error, and the set
\* holding the blob model returned (empty when the call throws)
downloadBlob(db, st, container, blob, snapshot, leaseId, cond) ==
  LET e0 == assertContainerExists(db, container)
      rows == FindCommittedBlob(db, container, blob, snapshot)
      e1 == validateReadConditions(cond, rows)
  IN  IF e0 # Ok THEN [err |-> e0, rows |-> {}]
      ELSE IF e1 # Ok THEN [err |-> e1, rows |-> {}]
      ELSE IF rows = {} THEN [err |-> "BlobNotFound", rows |-> {}]
      ELSE LET row == CHOOSE r \in rows : TRUE
               ls == createLeaseState(row.lease, st)
               e2 == ReadLeaseValidator(ls, leaseId)
           IN  IF e2 # Ok THEN [err |-> e2, rows |-> {}]
               ELSE [err |-> Ok, rows |-> {[row EXCEPT !.lease = LeaseSyncer(ls)]}]

\* getBlobProperties(context, account, container, blob, snapshot,
\* leaseAccessConditions, modifiedAccessConditions): the error, and the set
\* holding the blob model returned
getBlobProperties(db, st, container, blob, snapshot, leaseId, cond) ==
  LET e0 == assertContainerExists(db, container)
      rows == FindCommittedBlob(db, container, blob, snapshot)
      e1 == validateReadConditions(cond, rows)
  IN  IF e0 # Ok THEN [err |-> e0, rows |-> {}]
      ELSE IF e1 # Ok THEN [err |-> e1, rows |-> {}]
      ELSE IF rows = {} THEN [err |-> "BlobNotFound", rows |-> {}]
      ELSE LET row == CHOOSE r \in rows : TRUE
               ls == createLeaseState(row.lease, st)
               e2 == ReadLeaseValidator(ls, leaseId)
           IN  IF ~row.isCommitted THEN [err |-> "BlobNotFound", rows |-> {}]
               ELSE IF e2 # Ok THEN [err |-> e2, rows |-> {}]
               ELSE [err |-> Ok, rows |-> {[row EXCEPT !.lease = LeaseSyncer(ls)]}]

\* the tags of a stored tag set by key: t1 is the one tag a = 1
blobTagSet(blobTags) ==
  IF blobTags = "t1" THEN [a |-> "1", b |-> Undef, c |-> Undef]
  ELSE [a |-> Undef, b |-> Undef, c |-> Undef]

\* generateQueryBlobWithTagsWhereFunction(context, ifTags, 'x-ms-if-tags')
\* called on the blob: the error thrown for the filter, and whether the
\* blob's tags satisfy it
generateQueryBlobWithTagsWhereFunction(ifTags, blobModel) ==
  LET validateFunction == analysis(ifTags)
  IN  IF validateFunction.err # Ok THEN [err |-> validateFunction.err, val |-> FALSE]
      ELSE [err |-> Ok, val |-> Call(validateFunction, blobTagSet(blobModel.blobTags))]

\* getBlobTag that does not look at x-ms-if-tags
getBlobTagUnfiltered(db, st, container, blob, snapshot, leaseId, cond, ifTags) ==
  LET e0 == assertContainerExists(db, container)
      rows == FindCommittedBlob(db, container, blob, snapshot)
  IN  IF e0 # Ok THEN [err |-> e0, rows |-> {}]
      ELSE IF rows = {} THEN [err |-> "BlobNotFound", rows |-> {}]
      ELSE LET row == CHOOSE r \in rows : TRUE
               e1 == validateReadConditions(cond, rows)
               e2 == ReadLeaseValidator(createLeaseState(row.lease, st), leaseId)
           IN  IF e1 # Ok THEN [err |-> e1, rows |-> {}]
               ELSE IF ~row.isCommitted THEN [err |-> "BlobNotFound", rows |-> {}]
               ELSE IF e2 # Ok THEN [err |-> e2, rows |-> {}]
               ELSE [err |-> Ok, rows |-> {row}]

\* getBlobTag(context, account, container, blob, snapshot,
\* leaseAccessConditions, modifiedAccessConditions): the error, and the set
\* holding the row whose blobTags are the answer.  ifTags is
\* modifiedAccessConditions.ifTags, Undef or "" for none
getBlobTag(db, st, container, blob, snapshot, leaseId, cond, ifTags) ==
  LET e0 == assertContainerExists(db, container)
      rows == FindCommittedBlob(db, container, blob, snapshot)
  IN  IF e0 # Ok THEN [err |-> e0, rows |-> {}]
      ELSE IF rows = {} THEN [err |-> "BlobNotFound", rows |-> {}]
      ELSE LET row == CHOOSE r \in rows : TRUE
               e1 == validateReadConditions(cond, rows)
               e2 == ReadLeaseValidator(createLeaseState(row.lease, st), leaseId)
               validated == generateQueryBlobWithTagsWhereFunction(ifTags, row)
           IN  IF e1 # Ok THEN [err |-> e1, rows |-> {}]
               ELSE IF ~row.isCommitted THEN [err |-> "BlobNotFound", rows |-> {}]
               ELSE IF e2 # Ok THEN [err |-> e2, rows |-> {}]
               ELSE IF ifTags \in {Undef, ""} THEN [err |-> Ok, rows |-> {row}]
               ELSE IF validated.err # Ok THEN [err |-> validated.err, rows |-> {}]
               ELSE IF ~validated.val THEN [err |-> "412", rows |-> {}]
               ELSE [err |-> Ok, rows |-> {row}]

\* listBlobs(context, account, container, delimiter, blob, prefix, maxResults,
\* marker, includeSnapshots, includeUncommittedBlobs) without prefix, marker
\* and delimiter, for a page that holds every row the where clause selects:
\* the error, and the blob items of the answer; blob is the one name asked
\* for, or Undef
listBlobs(db, st, container, blob, includeSnapshots, includeUncommittedBlobs) ==
  LET e0 == assertContainerExists(db, container)
      found == {r \in db.blobs :
                  /\ r.containerName = container
                  /\ blob # Undef => r.blobName = blob
                  /\ ~includeSnapshots => r.snapshot = BaseSnapshot
                  /\ ~includeUncommittedBlobs => r.isCommitted
                  /\ r.deleting = 0}
  IN  IF e0 # Ok THEN [err |-> e0, rows |-> {}]
      ELSE [err |-> Ok,
            rows |-> {[r EXCEPT !.lease = LeaseSyncer(createLeaseState(r.lease, st))] :
                        r \in found}]

\* getBlobWithLeaseUpdated(account, container, blob, snapshot, context,
\* forceExist, forceCommitted, transaction): the error, and the set holding the
\* blob with its lease brought up to date (empty for undefined)
getBlobWithLeaseUpdated(db, st, container, blob, snapshot, forceExist, forceCommitted) ==
  LET e0 == assertContainerExists(db, container)
      rows == {r \in db.blobs : /\ r.containerName = container /\ r.blobName = blob
                                /\ r.snapshot = snapshot}
      doc == CHOOSE r \in rows : TRUE
      synced ==
        IF snapshot # BaseSnapshot THEN AvailableLease
        ELSE LeaseSyncer(createLeaseState(doc.lease, st))
  IN  IF e0 # Ok THEN [err |-> e0, rows |-> {}]
      ELSE IF rows = {}
        THEN IF forceExist THEN [err |-> "BlobNotFound", rows |-> {}]
             ELSE [err |-> Ok, rows |-> {}]
      ELSE IF forceCommitted /\ ~doc.isCommitted
        THEN IF forceExist THEN [err |-> "BlobNotFound", rows |-> {}]
             ELSE [err |-> Ok, rows |-> {}]
      ELSE [err |-> Ok, rows |-> {[doc EXCEPT !.lease = synced]}]

\* parseTier(tier)
parseTier(tier) == IF tier \in AccessTiers THEN tier ELSE Undef

\* startCopyFromURL(context, source, destination, copySource, metadata, tier,
\* options); source is [container, blob, snapshot], destination [container, blob]
startCopyFromURL(db, st, source, destination, metadata, tier, leaseId, cond, tags) ==
  LET src == getBlobWithLeaseUpdated(db, st, source.container, source.blob,
                                     source.snapshot, TRUE, TRUE)
      e1 == validateReadConditions(NoConditions, src.rows)
      dst == getBlobWithLeaseUpdated(db, st, destination.container, destination.blob,
                                     BaseSnapshot, FALSE, FALSE)
      e2 == validateWriteConditions(cond, dst.rows)
      sourceBlob == CHOOSE r \in src.rows : TRUE
      destBlob == CHOOSE r \in dst.rows : TRUE
      e3 == IF dst.rows = {} THEN Ok ELSE WriteLeaseValidator(destBlob.lease, leaseId)
      copiedBlob ==
        [sourceBlob EXCEPT
           !.containerName = destination.container,
           !.blobName = destination.blob,
           !.snapshot = BaseSnapshot,
           !.creationTime = st,
           !.lastModified = st,
           !.etag = newEtag(db),
           !.lease = IF dst.rows = {} THEN AvailableLease ELSE destBlob.lease,
           !.metadata = IF metadata = Undef THEN sourceBlob.metadata ELSE metadata,
           !.blobTags = tags,
           !.accessTier = IF sourceBlob.blobType = "BlockBlob" /\ tier # Undef
                            THEN parseTier(tier) ELSE sourceBlob.accessTier]
  IN  IF src.err # Ok THEN Fail(db, src.err)
      ELSE IF e1 # Ok THEN Fail(db, e1)
      ELSE IF dst.err # Ok THEN Fail(db, dst.err)
      ELSE IF e2 # Ok THEN Fail(db, e2)
      ELSE IF e3 # Ok THEN Fail(db, e3)
      ELSE IF sourceBlob.accessTier = "Archive" /\ tier = Undef
        THEN Fail(db, "BlobArchived")
      ELSE IF sourceBlob.blobType = "BlockBlob" /\ tier # Undef
              /\ parseTier(tier) = Undef
        THEN Fail(db, "InvalidHeaderValue")
      ELSE IF sourceBlob.blobType = "PageBlob" /\ tier # Undef
        THEN Fail(db, "InvalidHeaderValue")
      ELSE Done(UpsertBlob(EtagTaken(db), copiedBlob))

\* the orders in which the database can give the blob rows for ORDER BY
\* blobName ASC: rows of one blob name come in any order
RECURSIVE RowsByName(_)
RowsByName(rows) ==
  IF rows = {} THEN {<<>>}
  ELSE LET first == {r \in rows : \A q \in rows : ~NameLess(q.blobName, r.blobName)}
       IN  UNION {{<<r>> \o rest : rest \in RowsByName(rows \ {r})} : r \in first}

BlobsByName(db) == RowsByName(db.blobs)

\* listAllBlobs(maxResults, marker, includeSnapshots, includeUncommittedBlobs)
\* on the rows in the order the database gives them: the blobs of the page
\* and the next marker
listAllBlobs(sorted, maxResults, marker, includeSnapshots, includeUncommittedBlobs) ==
  LET Selected(r) ==
        /\ marker # Undef => NameLess(marker, r.blobName)
        /\ ~includeSnapshots => r.snapshot = BaseSnapshot
        /\ ~includeUncommittedBlobs => r.isCommitted
        /\ r.deleting = 0
      all == SelectSeq(sorted, Selected)
      blobFindResult == SubSeq(all, 1, Min(Len(all), maxResults + 1))
  IN  IF Len(blobFindResult) <= maxResults
        THEN [rows |-> blobFindResult, nextMarker |-> Undef]
        ELSE [rows |-> SubSeq(blobFindResult, 1, maxResults),
              nextMarker |-> blobFindResult[maxResults].blobName]

(***************************************************************************)
(* LinkedList.  The nodes are kept in the order they were made; head, tail *)
(* and next are places in that order, 0 for undefined.                     *)
(***************************************************************************)
\* new LinkedList(): head and tail undefined.  put and pushed are not fields
\* of the class: they hold the data of the putAtBeginning and pushAtEnd calls
\* that returned, in call order
NewLinkedList ==
  [head |-> 0, tail |-> 0, nodes |-> <<>>, put |-> <<>>, pushed |-> <<>>]

\* the outcome of a call: the list after it, and the error thrown
Thrown(this) == [list |-> this, err |-> "Fatal error"]
Returned(this) == [list |-> this, err |-> Ok]

\* putAtBeginning(data)
putAtBeginning(this, data) ==
  LET made == Len(this.nodes) + 1
  IN  IF this.head = 0
        THEN IF this.tail # 0 THEN Thrown(this)
             ELSE Returned([this EXCEPT !.nodes = Append(@, [data |-> data, next |-> 0]),
                                        !.head = made,
                                        !.tail = made])
        ELSE IF this.tail = 0 THEN Thrown(this)
             ELSE Returned([this EXCEPT
                              !.nodes = Append(@, [data |-> data, next |-> this.head]),
                              !.head = made])

\* pushAtEnd(data)
pushAtEnd(this, data) ==
  LET made == Len(this.nodes) + 1
  IN  IF this.tail = 0
        THEN IF this.head # 0 THEN Thrown(this)
             ELSE Returned([this EXCEPT !.nodes = Append(@, [data |-> data, next |-> 0]),
                                        !.head = made,
                                        !.tail = made])
        ELSE IF this.nodes[this.tail].next # 0 THEN Thrown(this)
             ELSE Returned([this EXCEPT
                              !.nodes = Append([@ EXCEPT ![this.tail].next = made],
                                               [data |-> data, next |-> 0])])

\* the loop of toArray from the node index on
RECURSIVE toArrayFrom(_, _)
toArrayFrom(this, index) ==
  IF index = 0 \/ this.nodes[index].next = 0 THEN <<>>
  ELSE <<this.nodes[index].data>> \o toArrayFrom(this, this.nodes[index].next)

\* toArray()
toArray(this) == toArrayFrom(this, this.head)

(***************************************************************************)
(* The state machine.  Each action is one store operation run as one       *)
(* transaction on the current tables, with its inputs drawn from the sets  *)
(* the specification hands it.                                             *)
(***************************************************************************)
\* the tables as the operations take them
DB == [containers |-> containers, blobs |-> blobs, blocks |-> blocks,
       etagSeq |-> etagSeq]

\* the state after construction: empty tables
Init ==
  /\ containers = {}
  /\ blobs = {}
  /\ blocks = <<>>
  /\ etagSeq = 0
  /\ now = 0
  /\ where = ""
  /\ linkedList = NewLinkedList

\* the outcome res of an operation becomes the state
Apply(res) ==
  /\ res.db.etagSeq <= MaxEtag
  /\ containers' = res.db.containers
  /\ blobs' = res.db.blobs
  /\ blocks' = res.db.blocks
  /\ etagSeq' = res.db.etagSeq
  /\ UNCHANGED <<now, where, linkedList>>

\* the same for an operation whose caller made the new ETag it passes in
\* (newEtag() in the handler): the token is used up when the call succeeds
ApplyWithEtag(res) ==
  Apply([res EXCEPT !.db = IF res.err = Ok THEN EtagTaken(res.db) ELSE res.db])

\* the logical time a request whose transaction runs now carries
\* (context.startTime)
StartTimes == {now}

\* conditions that name an ETag or a time, and none
ConditionsOver(etags, times) ==
  {NoConditions}
    \cup {[NoConditions EXCEPT !.ifMatch = e] : e \in etags}
    \cup {[NoConditions EXCEPT !.ifNoneMatch = e] : e \in etags}
    \cup {[NoConditions EXCEPT !.ifModifiedSince = t] : t \in times}
    \cup {[NoConditions EXCEPT !.ifUnmodifiedSince = t] : t \in times}

\* time passes
Tick(steps) ==
  /\ \E d \in steps : now + d <= MaxTime /\ now' = now + d
  /\ UNCHANGED <<containers, blobs, blocks, etagSeq, where, linkedList>>

\* the container model a create request carries
NewContainer(name, st, etag, metadata) ==
  [containerName |-> name, etag |-> etag, lastModified |-> st,
   metadata |-> metadata, containerAcl |-> Undef, lease |-> AvailableLease]

\* the blob model an upload request carries
NewBlob(container, name, st, etag, tier, tags) ==
  [containerName |-> container, blobName |-> name, snapshot |-> BaseSnapshot,
   deleting |-> 0, isCommitted |-> TRUE, etag |-> etag, lastModified |-> st,
   creationTime |-> st, blobType |-> "BlockBlob", accessTier |-> tier,
   contentLength |-> 0, contentType |-> Undef, metadata |-> Undef,
   blobTags |-> tags, committedBlocksInOrder |-> <<>>, lease |-> ClearedLease]

\* the block model a stage request carries
NewBlock(c, b, name, size) ==
  [containerName |-> c, blobName |-> b, blockName |-> name, size |-> size,
   persistency |-> size, deleting |-> 0]

CreateContainer(Cs) ==
  \E c \in Cs, st \in StartTimes :
    ApplyWithEtag(createContainer(DB, NewContainer(c, st, newEtag(DB), Undef)))

DeleteContainer(Cs, Ids, Conds) ==
  \E c \in Cs, st \in StartTimes, id \in Ids, cond \in Conds :
    Apply(deleteContainer(DB, st, c, id, cond))

SetContainerMetadata(Cs, Ms, Ids, Conds) ==
  \E c \in Cs, st \in StartTimes, m \in Ms, id \in Ids, cond \in Conds :
    ApplyWithEtag(setContainerMetadata(DB, st, c, st, newEtag(DB), m, id, cond))

SetContainerACL(Cs, As, Ids, Conds) ==
  \E c \in Cs, st \in StartTimes, a \in As, id \in Ids, cond \in Conds :
    ApplyWithEtag(setContainerACL(DB, st, c, st, newEtag(DB), a, id, cond))

AcquireContainerLease(Cs, Ds, Ids, Conds) ==
  \E c \in Cs, st \in StartTimes, d \in Ds, id \in Ids, cond \in Conds :
    Apply(acquireContainerLease(DB, st, c, d, id, cond))

ReleaseContainerLease(Cs, Ids, Conds) ==
  \E c \in Cs, st \in StartTimes, id \in Ids, cond \in Conds :
    Apply(releaseContainerLease(DB, st, c, id, cond))

RenewContainerLease(Cs, Ids, Conds) ==
  \E c \in Cs, st \in StartTimes, id \in Ids, cond \in Conds :
    Apply(renewContainerLease(DB, st, c, id, cond))

BreakContainerLease(Cs, Ps, Conds) ==
  \E c \in Cs, st \in StartTimes, p \in Ps, cond \in Conds :
    Apply(breakContainerLease(DB, st, c, p, cond))

ChangeContainerLease(Cs, Ids, Conds) ==
  \E c \in Cs, st \in StartTimes, id \in Ids, pid \in Ids, cond \in Conds :
    Apply(changeContainerLease(DB, st, c, id, pid, cond))

CreateBlob(Cs, Bs, Tiers, Tags, Ids, Conds) ==
  \E c \in Cs, b \in Bs, st \in StartTimes, tier \in Tiers, tags \in Tags,
     id \in Ids, cond \in Conds :
    ApplyWithEtag(createBlob(DB, st, NewBlob(c, b, st, newEtag(DB), tier, tags),
                             id, cond))

StageBlock(Cs, Bs, Names, Sizes, Ids) ==
  \E c \in Cs, b \in Bs, st \in StartTimes, n \in Names, size \in Sizes, id \in Ids :
    Apply(stageBlock(DB, st, NewBlock(c, b, n, size), id))

CommitBlockList(Cs, Bs, Lists, Ids, Conds) ==
  \E c \in Cs, b \in Bs, st \in StartTimes, list \in Lists, id \in Ids,
     cond \in Conds :
    /\ \A i \in 1..Len(blocks) : blocks[i].deleting < MaxDeleting
    /\ ApplyWithEtag(commitBlockList(DB, st,
                                     NewBlob(c, b, st, newEtag(DB), Undef, Undef),
                                     list, id, cond))

CreateSnapshot(Cs, Bs, Ms, Ids, Conds) ==
  \E c \in Cs, b \in Bs, st \in StartTimes, m \in Ms, id \in Ids, cond \in Conds :
    Apply(createSnapshot(DB, st, c, b, id, m, cond))

DeleteBlob(Cs, Bs, Snaps, Opts, Ids, Conds) ==
  \E c \in Cs, b \in Bs, st \in StartTimes, snap \in Snaps, opt \in Opts,
     id \in Ids, cond \in Conds :
    Apply(deleteBlob(DB, st, c, b, snap, opt, id, cond))

SetBlobHTTPHeaders(Cs, Bs, Hs, Ids, Conds) ==
  \E c \in Cs, b \in Bs, st \in StartTimes, h \in Hs, id \in Ids, cond \in Conds :
    Apply(setBlobHTTPHeaders(DB, st, c, b, id, h, cond))

SetBlobMetadata(Cs, Bs, Ms, Ids, Conds) ==
  \E c \in Cs, b \in Bs, st \in StartTimes, m \in Ms, id \in Ids, cond \in Conds :
    Apply(setBlobMetadata(DB, st, c, b, id, m, cond))

AcquireBlobLease(Cs, Bs, Ds, Ids, Conds) ==
  \E c \in Cs, b \in Bs, st \in StartTimes, d \in Ds, id \in Ids, cond \in Conds :
    Apply(acquireBlobLease(DB, st, c, b, d, id, cond))

ReleaseBlobLease(Cs, Bs, Ids, Conds) ==
  \E c \in Cs, b \in Bs, st \in StartTimes, id \in Ids, cond \in Conds :
    Apply(releaseBlobLease(DB, st, c, b, id, cond))

RenewBlobLease(Cs, Bs, Ids, Conds) ==
  \E c \in Cs, b \in Bs, st \in StartTimes, id \in Ids, cond \in Conds :
    Apply(renewBlobLease(DB, st, c, b, id, cond))

ChangeBlobLease(Cs, Bs, Ids, Conds) ==
  \E c \in Cs, b \in Bs, st \in StartTimes, id \in Ids, pid \in Ids, cond \in Conds :
    Apply(changeBlobLease(DB, st, c, b, id, pid, cond))

BreakBlobLease(Cs, Bs, Ps, Conds) ==
  \E c \in Cs, b \in Bs, st \in StartTimes, p \in Ps, cond \in Conds :
    Apply(breakBlobLease(DB, st, c, b, p, cond))

SetTier(Cs, Bs, Tiers, Ids) ==
  \E c \in Cs, b \in Bs, st \in StartTimes, tier \in Tiers, id \in Ids :
    Apply(setTier(DB, st, c, b, tier, id))

SetBlobTag(Cs, Bs, Snaps, Tags, Ids, Conds) ==
  \E c \in Cs, b \in Bs, st \in StartTimes, snap \in Snaps, tags \in Tags,
     id \in Ids, cond \in Conds :
    Apply(setBlobTag(DB, st, c, b, snap, id, tags, cond))

StartCopyFromURL(Cs, Bs, Ds, Snaps, Ms, Tiers, Ids, Conds, Tags) ==
  \E c \in Cs, sb \in Bs, db \in Ds, st \in StartTimes, snap \in Snaps, m \in Ms,
     tier \in Tiers, id \in Ids, cond \in Conds, tags \in Tags :
    Apply(startCopyFromURL(DB, st,
                           [container |-> c, blob |-> sb, snapshot |-> snap],
                           [container |-> c, blob |-> db],
                           m, tier, id, cond, tags))

\* the calls on one LinkedList: up to MaxNodes nodes of these data
MaxNodes == 4
ListData == {1, 2}

\* putAtBeginning(data), pushAtEnd(data) and toArray() are called on the list
PutAtBeginning(Ds) ==
  /\ Len(linkedList.nodes) < MaxNodes
  /\ \E data \in Ds :
       LET r == putAtBeginning(linkedList, data)
       IN  linkedList' = IF r.err = Ok THEN [r.list EXCEPT !.put = Append(@, data)] ELSE r.list
  /\ UNCHANGED <<containers, blobs, blocks, etagSeq, now, where>>

PushAtEnd(Ds) ==
  /\ Len(linkedList.nodes) < MaxNodes
  /\ \E data \in Ds :
       LET r == pushAtEnd(linkedList, data)
       IN  linkedList' = IF r.err = Ok THEN [r.list EXCEPT !.pushed = Append(@, data)]
                                 ELSE r.list
  /\ UNCHANGED <<containers, blobs, blocks, etagSeq, now, where>>

ToArray ==
  /\ Len(toArray(linkedList)) <= Len(linkedList.nodes)
  /\ UNCHANGED vars

\* analysis(where) is called on a filter
Analysis(Fs) ==
  /\ \E f \in Fs : where' = f
  /\ UNCHANGED <<containers, blobs, blocks, etagSeq, now, linkedList>>

\* a read: the store is left as it is
ListContainers(Ps, Ns, Ms) ==
  \E p \in Ps, n \in Ns, m \in Ms, st \in StartTimes :
    /\ Len(listContainers(DB, st, p, n, m).containers) >= 0
    /\ UNCHANGED vars

\* the reads of a blob: they answer and leave the tables as they are
GetBlobProperties(Cs, Bs, Snaps, Ids, Conds) ==
  \E c \in Cs, b \in Bs, s \in Snaps, st \in StartTimes, id \in Ids, cond \in Conds :
    /\ getBlobProperties(DB, st, c, b, s, id, cond).err \in STRING
    /\ UNCHANGED vars

DownloadBlob(Cs, Bs, Snaps, Ids, Conds) ==
  \E c \in Cs, b \in Bs, s \in Snaps, st \in StartTimes, id \in Ids, cond \in Conds :
    /\ downloadBlob(DB, st, c, b, s, id, cond).err \in STRING
    /\ UNCHANGED vars

GetBlobTag(Cs, Bs, Snaps, Ids, Conds, Fs) ==
  \E c \in Cs, b \in Bs, s \in Snaps, st \in StartTimes, id \in Ids, cond \in Conds,
     ifTags \in Fs :
    /\ getBlobTag(DB, st, c, b, s, id, cond, ifTags).err \in STRING
    /\ UNCHANGED vars

ListBlobs(Cs, Bs) ==
  \E c \in Cs, b \in Bs \cup {Undef}, st \in StartTimes, snaps \in BOOLEAN,
     uncommitted \in BOOLEAN :
    /\ listBlobs(DB, st, c, b, snaps, uncommitted).err \in STRING
    /\ UNCHANGED vars

ListAllBlobs(Ns, Ms) ==
  \E sorted \in BlobsByName(DB), n \in Ns, marker \in Ms, snaps \in BOOLEAN,
     uncommitted \in BOOLEAN :
    /\ Len(listAllBlobs(sorted, n, marker, snaps, uncommitted).rows) <= n
    /\ UNCHANGED vars

(***************************************************************************)
(* The inputs the requests are drawn from.                                 *)
(***************************************************************************)
ContainerNames == {"c1"}
BlobNames == {"b1"}
LeaseIds == {"L1", "L2"}
\* x-ms-lease-id of a request: none, or an id
LeaseIdHeaders == {Undef} \cup LeaseIds
\* x-ms-lease-duration: infinite, the shortest and the longest legal, and one
\* just too short
LeaseDurations == {InfiniteLeaseDuration, MinLeaseDuration, MaxLeaseDuration,
                   MinLeaseDuration - 1}
\* x-ms-lease-break-period: none, immediate, and shorter than a lease
BreakPeriods == {NoTime, 0, 10}
Metadatas == {Undef, "m1"}
TagSets == {Undef, "t1"}
ContentTypes == {NoHeaders, "text/plain"}
Tiers == {"Hot", "Archive", "Bogus"}
\* block ids in base64: two of one decoded length, one of another
BlockNames == {"AA", "AB", "AAAA"}
BlockSizes == {1, 2}
BlockCommitTypes == {"Uncommitted", "Committed", "Latest", "Bogus"}
BlockListItems ==
  [blockName : {"AA", "AB"}, blockCommitType : BlockCommitTypes]
\* the block lists of a commit: up to two items
BlockLists ==
  {<<>>} \cup {<<i>> : i \in BlockListItems}
         \cup {<<i, j>> : i \in BlockListItems, j \in BlockListItems}
\* the one-item block lists naming the block "AA"
ShortBlockLists ==
  {<<i>> : i \in [blockName : {"AA"},
                  blockCommitType : {"Uncommitted", "Committed", "Bogus"}]}
\* no condition, and If-Match on the first ETag handed out
StaleConditions == {NoConditions, [NoConditions EXCEPT !.ifMatch = 1]}
\* every condition over the ETags and the times 0 and now
AllConditions == ConditionsOver({AnyEtag} \cup 1..(MaxEtag + 1), {0, now})
\* no condition, and one no existing entity meets
FewConditions == {NoConditions, [NoConditions EXCEPT !.ifNoneMatch = AnyEtag]}

(***************************************************************************)
(* The store: the operations on one container and one blob in it, the      *)
(* clock moving in long steps.                                             *)
(***************************************************************************)
Next ==
  \/ Tick({20})
  \/ CreateContainer(ContainerNames)
  \/ DeleteContainer(ContainerNames, {Undef}, {NoConditions})
  \/ CreateBlob(ContainerNames, BlobNames, {Undef}, {Undef}, LeaseIdHeaders,
                {NoConditions})
  \/ StageBlock(ContainerNames, BlobNames, {"AA", "AAAA"}, {1}, LeaseIdHeaders)
  \/ CommitBlockList(ContainerNames, BlobNames, ShortBlockLists, LeaseIdHeaders,
                     {NoConditions})
  \/ DeleteBlob(ContainerNames, BlobNames, {BaseSnapshot}, {Undef, "include"},
                LeaseIdHeaders, {NoConditions})
  \/ SetBlobHTTPHeaders(ContainerNames, BlobNames, {"text/plain"}, LeaseIdHeaders,
                        StaleConditions)
  \/ SetBlobMetadata(ContainerNames, BlobNames, {"m1"}, LeaseIdHeaders,
                     StaleConditions)
  \/ SetBlobTag(ContainerNames, BlobNames, {BaseSnapshot}, {"t1"}, LeaseIdHeaders,
                StaleConditions)
  \/ SetTier(ContainerNames, BlobNames, {"Archive", "Bogus"}, LeaseIdHeaders)
  \/ AcquireBlobLease(ContainerNames, BlobNames,
                      {InfiniteLeaseDuration, MinLeaseDuration}, LeaseIds,
                      {NoConditions})
  \/ ReleaseBlobLease(ContainerNames, BlobNames, LeaseIds, {NoConditions})
  \/ RenewBlobLease(ContainerNames, BlobNames, LeaseIds, {NoConditions})
  \/ ChangeBlobLease(ContainerNames, BlobNames, LeaseIds, {NoConditions})
  \/ BreakBlobLease(ContainerNames, BlobNames, {NoTime, 10}, {NoConditions})
  \/ StartCopyFromURL(ContainerNames, BlobNames, BlobNames, {BaseSnapshot}, {Undef},
                      {Undef, "Hot"}, LeaseIdHeaders, {NoConditions}, {Undef})

Spec == Init /\ [][Next]_vars

(***************************************************************************)
(* The leases: the five lease operations on a container and on a blob that *)
(* exist, the clock moving in short steps.                                 *)
(***************************************************************************)
\* a store holding one container and one committed blob, both made at time 0
InitLease ==
  /\ containers = {NewContainer("c1", 0, 1, Undef)}
  /\ blobs = {NewBlob("c1", "b1", 0, 2, Undef, Undef)}
  /\ blocks = <<>>
  /\ etagSeq = 2
  /\ now = 0
  /\ where = ""
  /\ linkedList = NewLinkedList

NextLease ==
  \/ Tick({10})
  \/ AcquireContainerLease(ContainerNames, LeaseDurations, LeaseIds, FewConditions)
  \/ ReleaseContainerLease(ContainerNames, LeaseIds, FewConditions)
  \/ RenewContainerLease(ContainerNames, LeaseIds, FewConditions)
  \/ BreakContainerLease(ContainerNames, BreakPeriods, FewConditions)
  \/ ChangeContainerLease(ContainerNames, LeaseIds, FewConditions)
  \/ AcquireBlobLease(ContainerNames, BlobNames, LeaseDurations, LeaseIds,
                      FewConditions)
  \/ ReleaseBlobLease(ContainerNames, BlobNames, LeaseIds, FewConditions)
  \/ RenewBlobLease(ContainerNames, BlobNames, LeaseIds, FewConditions)
  \/ BreakBlobLease(ContainerNames, BlobNames, BreakPeriods, FewConditions)
  \/ ChangeBlobLease(ContainerNames, BlobNames, LeaseIds, FewConditions)

SpecLease == InitLease /\ [][NextLease]_vars

(***************************************************************************)
(* The blocks: staging and committing the blocks of one blob.              *)
(***************************************************************************)
\* a store holding one container made at time 0
InitBlocks ==
  /\ containers = {NewContainer("c1", 0, 1, Undef)}
  /\ blobs = {}
  /\ blocks = <<>>
  /\ etagSeq = 1
  /\ now = 0
  /\ where = ""
  /\ linkedList = NewLinkedList

NextBlocks ==
  \/ StageBlock(ContainerNames, BlobNames, BlockNames, BlockSizes, {Undef})
  \/ CommitBlockList(ContainerNames, BlobNames, BlockLists, {Undef}, FewConditions)
  \/ DeleteBlob(ContainerNames, BlobNames, {BaseSnapshot}, {Undef}, {Undef},
                {NoConditions})

SpecBlocks == InitBlocks /\ [][NextBlocks]_vars

(***************************************************************************)
(* The listing: containers of several names made and deleted, and listed   *)
(* page by page.                                                           *)
(***************************************************************************)
\* names that share prefixes, and one that sorts before the letters
ListedNames == {"a", "ab", "b", "b1"}
\* prefixes: none, one letter, a whole name
ListPrefixes == {"", "a", "b", "ab"}
\* markers: none, names that can be in the store, and names that cannot
ListMarkers == {"", "a", "ab", "b", "b1", "aa", "c"}
\* page sizes
MaxPage == 3

PageSizes == 1..MaxPage

NextList ==
  \/ CreateContainer(ListedNames)
  \/ DeleteContainer(ListedNames, {Undef}, {NoConditions})
  \/ ListContainers(ListPrefixes, PageSizes, ListMarkers)

SpecList == Init /\ [][NextList]_vars

(***************************************************************************)
(* The snapshots: a committed blob is written, staged for, leased,         *)
(* snapshotted at several times and deleted with and without snapshots.    *)
(***************************************************************************)
\* the times a request can carry in this specification
SnapshotClock == {0, 20}
\* the snapshot ids a request can address
SnapshotIds == {SnapshotTime(t) : t \in SnapshotClock}
\* x-ms-delete-snapshots: not given, include, only
DeleteSnapshotsOptions == {Undef, "include", "only"}

\* filter expressions: a comparison of a key with a literal, two expressions
\* joined by and / or, an expression in parentheses
Comparison(key, operator, literal) ==
  [kind |-> "comparison", key |-> key, operator |-> operator, literal |-> literal]
Both(left, right) == [kind |-> "and", left |-> left, right |-> right]
Either(left, right) == [kind |-> "or", left |-> left, right |-> right]
Group(of) == [kind |-> "group", of |-> of]

\* the text of a filter expression
RECURSIVE Render(_)
Render(e) ==
  CASE e.kind = "comparison" -> e.key \o e.operator \o "'" \o e.literal \o "'"
    [] e.kind = "and" -> Render(e.left) \o " and " \o Render(e.right)
    [] e.kind = "or" -> Render(e.left) \o " or " \o Render(e.right)
    [] e.kind = "group" -> "(" \o Render(e.of) \o ")"

\* x-ms-if-tags of a read: filters the tag set t1 satisfies and filters it
\* does not
IfTagsExprs ==
  {Comparison("a", "=", "1"), Comparison("a", "=", "2"), Comparison("a", "<", "2"),
   Comparison("b", ">", "1"),
   Both(Comparison("a", "=", "1"), Comparison("b", ">", "1")),
   Either(Comparison("b", ">", "1"), Comparison("a", ">=", "1"))}
IfTags == {Render(e) : e \in IfTagsExprs}

NextSnapshots ==
  \/ Tick({20})
  \/ CreateSnapshot(ContainerNames, BlobNames, {Undef}, {Undef}, {NoConditions})
  \/ DeleteBlob(ContainerNames, BlobNames, {BaseSnapshot} \cup SnapshotIds,
                DeleteSnapshotsOptions, {Undef}, {NoConditions})
  \/ SetBlobTag(ContainerNames, BlobNames, {BaseSnapshot} \cup SnapshotIds, {"t1"},
                {Undef}, {NoConditions})
  \/ SetBlobMetadata(ContainerNames, BlobNames, {"m2"}, {Undef}, {NoConditions})
  \/ StageBlock(ContainerNames, BlobNames, {"AA"}, {1}, {Undef})
  \/ CommitBlockList(ContainerNames, BlobNames, ShortBlockLists, {Undef},
                     {NoConditions})
  \/ CreateBlob(ContainerNames, BlobNames, {Undef}, {Undef}, {Undef}, {NoConditions})
  \/ StartCopyFromURL(ContainerNames, BlobNames, BlobNames, {BaseSnapshot}, {Undef},
                      {Undef}, {Undef}, {NoConditions}, {Undef})
  \/ AcquireBlobLease(ContainerNames, BlobNames, {InfiniteLeaseDuration}, {"L1"},
                      {NoConditions})
  \/ GetBlobProperties(ContainerNames, BlobNames, {BaseSnapshot} \cup SnapshotIds,
                       {Undef}, {NoConditions})
  \/ DownloadBlob(ContainerNames, BlobNames, {BaseSnapshot} \cup SnapshotIds,
                  {Undef}, {NoConditions})
  \/ GetBlobTag(ContainerNames, BlobNames, {BaseSnapshot} \cup SnapshotIds,
                {Undef}, {NoConditions}, {Undef} \cup IfTags)
  \/ ListBlobs(ContainerNames, BlobNames)

SpecSnapshots == InitLease /\ [][NextSnapshots]_vars

\* containers created and deleted around blobs, snapshots and staged blocks
NextContainers ==
  \/ Tick({20})
  \/ CreateContainer(ContainerNames)
  \/ DeleteContainer(ContainerNames, {Undef}, {NoConditions})
  \/ CreateBlob(ContainerNames, BlobNames, {Undef}, {Undef}, {Undef}, {NoConditions})
  \/ StageBlock(ContainerNames, BlobNames, {"AA"}, {1}, {Undef})
  \/ CommitBlockList(ContainerNames, BlobNames, ShortBlockLists, {Undef},
                     {NoConditions})
  \/ CreateSnapshot(ContainerNames, BlobNames, {Undef}, {Undef}, {NoConditions})
  \/ DeleteBlob(ContainerNames, BlobNames, {BaseSnapshot} \cup SnapshotIds,
                DeleteSnapshotsOptions, {Undef}, {NoConditions})
  \/ StartCopyFromURL(ContainerNames, BlobNames, BlobNames, {BaseSnapshot}, {Undef},
                      {Undef}, {Undef}, {NoConditions}, {Undef})
  \/ ListAllBlobs(PageSizes, {Undef} \cup BlobNames)

SpecContainers == Init /\ [][NextContainers]_vars

(***************************************************************************)
(* The filters: analysis is handed every text put together from a few      *)
(* pieces, well formed or not, and the well-formed filters of up to three  *)
(* comparisons.                                                            *)
(***************************************************************************)
\* the pieces: comparisons, a bare key, a comparison without operator,
\* connectors legal and not, parentheses, a space
FilterPieces ==
  {"a='1'", "b<='2'", "a", " @ '1'", " and ", " or ", " xor ", "(", ")", " "}
\* pieces to a text
MaxPieces == 3

\* the texts of up to n pieces
RECURSIVE TextsOf(_)
TextsOf(n) ==
  IF n = 0 THEN {""}
  ELSE TextsOf(n - 1) \cup {s \o piece : s \in TextsOf(n - 1), piece \in FilterPieces}

ComparisonExprs ==
  {Comparison("a", "=", "1"), Comparison("b", ">", "1"), Comparison("c", "<=", "2"),
   Comparison("b", ">=", "2"), Comparison("c", "<", "12"), Comparison("b", "=", "2"),
   Comparison("c", "=", "12")}
InnerExprs ==
  LET Xs == {Comparison("b", ">", "1"), Comparison("b", "=", "2")}
      Ys == {Comparison("a", "=", "1"), Comparison("c", "<", "12"),
             Comparison("c", "=", "12")}
  IN  {Both(x, y) : x \in Xs, y \in Ys} \cup {Either(x, y) : x \in Xs, y \in Ys}
GroupExprs ==
  {Group(e) : e \in InnerExprs \cup {Comparison("a", "=", "1"), Comparison("b", ">", "1")}}
TermExprs == ComparisonExprs \cup GroupExprs
\* and binds tighter than or: x and y or z, x or y and z
ChainExprs ==
  LET Xs == {Comparison("a", "=", "1"), Comparison("b", ">=", "2")}
      Ys == {Comparison("b", ">", "1")}
      Zs == {Comparison("c", "<=", "2"), Comparison("c", "<", "12")}
  IN  {Either(Both(x, y), z) : x \in Xs, y \in Ys, z \in Zs}
        \cup {Either(x, Both(y, z)) : x \in Xs, y \in Ys, z \in Zs}
        \cup {Both(Both(x, y), z) : x \in Xs, y \in Ys, z \in Zs}
FilterExprs ==
  TermExprs
    \cup {Both(x, y) : x, y \in TermExprs} \cup {Either(x, y) : x, y \in TermExprs}
    \cup ChainExprs \cup {Group(g) : g \in GroupExprs}

\* the well-formed filters: comparisons, joined by and / or, grouped
Comparisons == {Render(e) : e \in ComparisonExprs}
LegalConnectors == {" and ", " or "}
Joined(Xs, Ys) == {x \o k \o y : x \in Xs, k \in LegalConnectors, y \in Ys}
WellFormedFilters == {Render(e) : e \in FilterExprs}

\* comparisons whose operator text is not one of the five, one of them with
\* no operator character at all, alone and next to well-formed comparisons
IllegalComparisons == {"a @ '1'", "a == '1'", "a=>'1'", "a '1'"}
IllegalOperatorFilters ==
  IllegalComparisons
    \cup Joined(IllegalComparisons, {"b>'1'", "c<='2'"})
    \cup Joined({"b>'1'", "c<='2'"}, IllegalComparisons)
    \cup {"(" \o x \o ")" : x \in IllegalComparisons}

\* two well-formed terms with a token between them that is not and / or
IllegalConnectors == {" xor ", " AND ", " Or ", " && ", " andor "}
IllegalConnectorFilters ==
  {x \o k \o y : x \in {"a='1'", "(b>'1' or c<'12')"}, k \in IllegalConnectors,
                 y \in {"c<='2'", "(a='1' and b>'1')"}}

\* terms with one parenthesis too many or too few around or between them
UnbalancedFilters ==
  {x \o ")" \o k \o y : x, y \in {"a='1'", "(b>'1' or c<'12')"}, k \in LegalConnectors}
    \cup {"(" \o x \o k \o y : x, y \in {"a='1'", "b>'1')"}, k \in LegalConnectors}
    \cup {"((a='1')", "(a='1'))", "(a='1' and (b>'1' or c<'12')", ")a='1'("}

\* filters that end inside a key, before or after an operator, or inside a
\* quoted value
TruncatedFilters ==
  {"a", "a ", "a=", "a<=", "a='", "a='1", "a='1' and b", "a='1' and b>",
   "a='1' or b>'1", "(a='1"}

\* a filter that starts with "(", and the filter with spaces put before a "(":
\* at the start of the text, or directly after another "("
SpacedFilters ==
  LET Gs == {Render(g) : g \in GroupExprs}
  IN  {<<g, " " \o g>> : g \in Gs} \cup {<<g, "   " \o g>> : g \in Gs}
        \cup {<<"(" \o g \o ")", "( " \o g \o ")">> : g \in Gs}
        \cup {<<g \o " and " \o g, "  " \o g \o " and " \o g>> : g \in Gs}

Filters ==
  TextsOf(MaxPieces) \cup WellFormedFilters \cup IllegalOperatorFilters
    \cup IllegalConnectorFilters \cup UnbalancedFilters \cup TruncatedFilters
    \cup {pair[2] : pair \in SpacedFilters}

\* the tag sets a blob can carry: each key absent or with a value
TagKeys == {"a", "b", "c"}
FilterTagSets == [TagKeys -> {Undef, "1", "2", "12"}]

NextFilter == Analysis(Filters)

SpecFilter == Init /\ [][NextFilter]_vars

NextLinkedList ==
  \/ PutAtBeginning(ListData)
  \/ PushAtEnd(ListData)
  \/ ToArray

SpecLinkedList == Init /\ [][NextLinkedList]_vars

(***************************************************************************)
(* The properties.  A request is put to the store as it stands in a        *)
(* reachable state, at the logical time of that state.                     *)
(***************************************************************************)
\* the committed base blob of that name: a set of at most one row
CommittedBase(c, b) == FindCommittedBlob(DB, c, b, BaseSnapshot)

\* the names of the blob's staged blocks that are live
StagedNames(c, b) ==
  {blocks[i].blockName :
     i \in {j \in 1..Len(blocks) : /\ blocks[j].containerName = c
                                   /\ blocks[j].blobName = b
                                   /\ blocks[j].deleting = 0}}

\* the names in the committed block list of the blob
CommittedNames(c, b) ==
  UNION {{r.committedBlocksInOrder[i].name : i \in 1..Len(r.committedBlocksInOrder)} :
           r \in CommittedBase(c, b)}

\* an item of a block list that names no block its commit type may take
CannotBeResolved(item, c, b) ==
  \/ item.blockCommitType = "Uncommitted" /\ item.blockName \notin StagedNames(c, b)
  \/ item.blockCommitType = "Committed" /\ item.blockName \notin CommittedNames(c, b)
  \/ /\ item.blockCommitType = "Latest"
     /\ item.blockName \notin StagedNames(c, b) \cup CommittedNames(c, b)
  \/ item.blockCommitType \notin {"Uncommitted", "Committed", "Latest"}

\* the commit of a block list to the blob, without lease id or conditions
PlainCommit(c, b, list) ==
  commitBlockList(DB, now, NewBlob(c, b, now, newEtag(DB), Undef, Undef), list,
                  Undef, NoConditions)

\* C1: a commit whose block list holds an item that cannot be resolved, at any
\* position, fails with InvalidBlockList and leaves the blob rows and the block
\* rows as they were.
C1_UnresolvedItemFailsWholeCommit ==
  \A c \in ContainerNames, b \in BlobNames, list \in BlockLists :
    (\E i \in 1..Len(list) : CannotBeResolved(list[i], c, b))
      => LET r == PlainCommit(c, b, list)
         IN  /\ r.err = "InvalidBlockList"
             /\ r.db.blobs = blobs
             /\ r.db.blocks = blocks
             /\ r.db.containers = containers

\* a committed blob with committed and live staged blocks refuses a list whose
\* first item resolves and whose second does not
C1_Witness ==
  \E c \in ContainerNames, b \in BlobNames, list \in BlockLists :
    /\ CommittedNames(c, b) # {}
    /\ StagedNames(c, b) # {}
    /\ Len(list) = 2
    /\ ~CannotBeResolved(list[1], c, b)
    /\ CannotBeResolved(list[2], c, b)
    /\ list[2].blockCommitType # "Bogus"
    /\ PlainCommit(c, b, list).err = "InvalidBlockList"
    /\ PlainCommit(c, b, list).db.blobs = blobs

\* the committed base blob is there and its lease is Leased at time t
LeasedAt(c, b, t) ==
  \E r \in CommittedBase(c, b) : createLeaseState(r.lease, t).leaseState = "leased"

\* the lease id the committed base blob stores
CurrentLeaseId(c, b) == (CHOOSE r \in CommittedBase(c, b) : TRUE).lease.leaseId

\* the operation ended in an error and every table is as it was
Refused(r) ==
  /\ r.err # Ok
  /\ r.db.containers = containers
  /\ r.db.blobs = blobs
  /\ r.db.blocks = blocks

\* C2: while a committed base blob is Leased at the request's logical time,
\* setBlobMetadata, setBlobHTTPHeaders, setBlobTag, setTier, deleteBlob of the
\* base, stageBlock, commitBlockList and createBlob over it, called with no lease
\* id or with another lease id than the current one, fail and leave the blob
\* and its staged blocks unchanged.
C2_LeasedBlobRefusesForeignWrites ==
  \A c \in ContainerNames, b \in BlobNames, st \in StartTimes :
    LeasedAt(c, b, st) =>
      \A id \in LeaseIdHeaders \ {CurrentLeaseId(c, b)} :
        /\ \A m \in Metadatas, cond \in AllConditions :
             Refused(setBlobMetadata(DB, st, c, b, id, m, cond))
        /\ \A h \in ContentTypes, cond \in AllConditions :
             Refused(setBlobHTTPHeaders(DB, st, c, b, id, h, cond))
        /\ \A tags \in TagSets, cond \in AllConditions :
             Refused(setBlobTag(DB, st, c, b, BaseSnapshot, id, tags, cond))
        /\ \A tier \in Tiers : Refused(setTier(DB, st, c, b, tier, id))
        /\ \A opt \in {Undef, "include", "only"}, cond \in AllConditions :
             Refused(deleteBlob(DB, st, c, b, BaseSnapshot, opt, id, cond))
        /\ \A n \in BlockNames, size \in BlockSizes :
             Refused(stageBlock(DB, st, NewBlock(c, b, n, size), id))
        /\ \A list \in BlockLists, cond \in FewConditions :
             Refused(commitBlockList(DB, st,
                                     NewBlob(c, b, st, newEtag(DB), Undef, Undef),
                                     list, id, cond))
        /\ \A tier \in {Undef, "Hot"}, tags \in TagSets, cond \in AllConditions :
             Refused(createBlob(DB, st, NewBlob(c, b, st, newEtag(DB), tier, tags),
                                id, cond))

\* a blob leased under "L1" with a live staged block turns away a metadata
\* write under "L2" and a stage without lease id
C2_Witness ==
  \E c \in ContainerNames, b \in BlobNames :
    /\ LeasedAt(c, b, now)
    /\ CurrentLeaseId(c, b) = "L1"
    /\ StagedNames(c, b) # {}
    /\ setBlobMetadata(DB, now, c, b, "L2", "m1", NoConditions).err = "LeaseIdMismatch"
    /\ stageBlock(DB, now, NewBlock(c, b, "AA", 1), Undef).err = "LeaseIdMissing"

\* the lease durations acquire accepts, among those requests carry
ValidDurations == {d \in LeaseDurations : ValidLeaseDuration(d)}

\* the container row of that name: a set of at most one row
ContainerRow(c) == FindContainer(DB, c)

\* the lease the entity presents at time t is Available
BlobAvailableAt(c, b, t) ==
  \E r \in CommittedBase(c, b) : createLeaseState(r.lease, t).leaseState = "available"

ContainerAvailableAt(c, t) ==
  \E r \in ContainerRow(c) : createLeaseState(r.lease, t).leaseState = "available"

\* the stored lease of the entity in the tables db
BlobLeaseIn(db, c, b) ==
  (CHOOSE r \in FindCommittedBlob(db, c, b, BaseSnapshot) : TRUE).lease

ContainerLeaseIn(db, c) == (CHOOSE r \in FindContainer(db, c) : TRUE).lease

IfMatch(e) == [NoConditions EXCEPT !.ifMatch = e]

\* a write of new metadata, or of new headers
SetProperty(kind, db, st, c, b, id, cond) ==
  IF kind = "metadata"
    THEN setBlobMetadata(db, st, c, b, id, "m2", cond)
    ELSE setBlobHTTPHeaders(db, st, c, b, id, "text/html", cond)

BlobEtagIn(db, c, b) ==
  (CHOOSE r \in FindCommittedBlob(db, c, b, BaseSnapshot) : TRUE).etag

ContainerEtagIn(db, c) == (CHOOSE r \in FindContainer(db, c) : TRUE).etag

\* the ETags the rows of the tables carry
EtagsInUse == {r.etag : r \in blobs} \cup {r.etag : r \in containers}

\* the outcomes of the blob operations that write properties, metadata or
\* content of the blob b
BlobContentWrites(c, b) ==
  {setBlobMetadata(DB, now, c, b, id, m, NoConditions) :
     id \in LeaseIdHeaders, m \in Metadatas}
    \cup {setBlobHTTPHeaders(DB, now, c, b, id, h, NoConditions) :
            id \in LeaseIdHeaders, h \in ContentTypes}
    \cup {startCopyFromURL(DB, now, [container |-> c, blob |-> b,
                                     snapshot |-> BaseSnapshot],
                           [container |-> c, blob |-> b], Undef, tier, id,
                           NoConditions, Undef) :
            id \in LeaseIdHeaders, tier \in {Undef, "Hot"}}

\* the outcomes of setBlobTag and setTier on the blob b
BlobTagAndTierWrites(c, b) ==
  {setBlobTag(DB, now, c, b, BaseSnapshot, id, tags, NoConditions) :
     id \in LeaseIdHeaders, tags \in TagSets}
    \cup {setTier(DB, now, c, b, tier, id) : id \in LeaseIdHeaders, tier \in Tiers}

\* the outcomes of the five lease operations on the blob b in the tables db
BlobLeaseWrites(db, c, b) ==
  {acquireBlobLease(db, now, c, b, d, id, NoConditions) :
     d \in LeaseDurations, id \in LeaseIds}
    \cup {renewBlobLease(db, now, c, b, id, NoConditions) : id \in LeaseIds}
    \cup {releaseBlobLease(db, now, c, b, id, NoConditions) : id \in LeaseIds}
    \cup {breakBlobLease(db, now, c, b, p, NoConditions) : p \in BreakPeriods}
    \cup {changeBlobLease(db, now, c, b, id, pid, NoConditions) :
            id \in LeaseIds, pid \in LeaseIds}

\* the outcomes of the five lease operations on the container c in the tables db
ContainerLeaseWrites(db, c) ==
  {acquireContainerLease(db, now, c, d, id, NoConditions) :
     d \in LeaseDurations, id \in LeaseIds}
    \cup {renewContainerLease(db, now, c, id, NoConditions) : id \in LeaseIds}
    \cup {releaseContainerLease(db, now, c, id, NoConditions) : id \in LeaseIds}
    \cup {breakContainerLease(db, now, c, p, NoConditions) : p \in BreakPeriods}
    \cup {changeContainerLease(db, now, c, id, pid, NoConditions) :
            id \in LeaseIds, pid \in LeaseIds}

\* the tables after the container c was leased under "L1" for the shortest time
WithContainerLeased(c) ==
  acquireContainerLease(DB, now, c, MinLeaseDuration, "L1", NoConditions).db

C6_SetBlobTagEnforcesConditions ==
  \A c \in ContainerNames, b \in BlobNames :
    \A row \in CommittedBase(c, b) :
      \A id \in LeaseIdHeaders, tags \in TagSets, cond \in AllConditions :
        \/ (cond.ifMatch \notin {NoEtag, AnyEtag} /\ cond.ifMatch # row.etag)
        \/ (cond.ifUnmodifiedSince # NoTime /\ cond.ifUnmodifiedSince < row.lastModified)
        => LET r == setBlobTag(DB, now, c, b, BaseSnapshot, id, tags, cond)
           IN  /\ r.err # Ok
               /\ \A new \in FindCommittedBlob(r.db, c, b, BaseSnapshot) :
                    new.blobTags = row.blobTags

\* an operation that ended with an error left every table as it was
FailedCleanly(r) ==
  r.err # Ok =>
    /\ r.db.containers = containers
    /\ r.db.blobs = blobs
    /\ r.db.blocks = blocks

\* no condition, one no existing entity meets, and one no entity meets
SomeConditions ==
  {NoConditions,
   [NoConditions EXCEPT !.ifNoneMatch = AnyEtag],
   [NoConditions EXCEPT !.ifMatch = MaxEtag + 1]}

\* the block lists of one item, and those of two that begin with the latest "AA"
SomeBlockLists ==
  {list \in BlockLists :
     Len(list) = 2 => list[1] = [blockName |-> "AA", blockCommitType |-> "Latest"]}

\* every container operation on the tables as they stand fails cleanly
ContainerOperationsFailCleanly(c) ==
  /\ FailedCleanly(createContainer(DB, NewContainer(c, now, newEtag(DB), Undef)))
  /\ \A id \in LeaseIdHeaders, cond \in SomeConditions :
       /\ FailedCleanly(deleteContainer(DB, now, c, id, cond))
       /\ FailedCleanly(setContainerMetadata(DB, now, c, now, newEtag(DB), "m1",
                                             id, cond))
       /\ FailedCleanly(setContainerACL(DB, now, c, now, newEtag(DB), "acl", id, cond))
  /\ \A id \in LeaseIds, cond \in FewConditions :
       /\ \A d \in LeaseDurations :
            FailedCleanly(acquireContainerLease(DB, now, c, d, id, cond))
       /\ FailedCleanly(renewContainerLease(DB, now, c, id, cond))
       /\ FailedCleanly(releaseContainerLease(DB, now, c, id, cond))
       /\ \A pid \in LeaseIds :
            FailedCleanly(changeContainerLease(DB, now, c, id, pid, cond))
  /\ \A p \in BreakPeriods, cond \in FewConditions :
       FailedCleanly(breakContainerLease(DB, now, c, p, cond))

\* every blob and block operation on the tables as they stand fails cleanly
BlobOperationsFailCleanly(c, b) ==
  /\ \A id \in LeaseIdHeaders :
       /\ \A n \in BlockNames, size \in BlockSizes :
            FailedCleanly(stageBlock(DB, now, NewBlock(c, b, n, size), id))
       /\ \A tier \in Tiers : FailedCleanly(setTier(DB, now, c, b, tier, id))
       /\ \A list \in SomeBlockLists, cond \in FewConditions :
            FailedCleanly(commitBlockList(DB, now,
                                          NewBlob(c, b, now, newEtag(DB), Undef, Undef),
                                          list, id, cond))
       /\ \A cond \in SomeConditions :
            /\ \A tier \in {Undef, "Archive"} :
                 FailedCleanly(createBlob(DB, now,
                                          NewBlob(c, b, now, newEtag(DB), tier, Undef),
                                          id, cond))
            /\ FailedCleanly(createSnapshot(DB, now, c, b, id, Undef, cond))
            /\ \A snap \in {BaseSnapshot, 0}, opt \in {Undef, "include", "only"} :
                 FailedCleanly(deleteBlob(DB, now, c, b, snap, opt, id, cond))
            /\ FailedCleanly(setBlobHTTPHeaders(DB, now, c, b, id, "text/html", cond))
            /\ FailedCleanly(setBlobMetadata(DB, now, c, b, id, "m2", cond))
            /\ FailedCleanly(setBlobTag(DB, now, c, b, BaseSnapshot, id, "t2", cond))
            /\ \A dest \in {b, "b2"}, tier \in {Undef, "Hot", "Bogus"} :
                 FailedCleanly(startCopyFromURL(
                                 DB, now,
                                 [container |-> c, blob |-> b, snapshot |-> BaseSnapshot],
                                 [container |-> c, blob |-> dest],
                                 Undef, tier, id, cond, Undef))
  /\ \A r \in BlobLeaseWrites(DB, c, b) : FailedCleanly(r)

\* C7: whenever a store operation ends with an error, the container rows, the
\* blob rows and the block rows are what they were before the call.
C7_FailedOperationChangesNothing ==
  \A c \in ContainerNames :
    /\ ContainerOperationsFailCleanly(c)
    /\ \A b \in BlobNames : BlobOperationsFailCleanly(c, b)

\* an archived, leased blob with a live staged block: a stage without the
\* lease id, a stage of a block id of another length under the lease id, a copy
\* of the blob and a delete of the container under a lease id all end in errors
C7_Witness ==
  \E c \in ContainerNames, b \in BlobNames :
    /\ LeasedAt(c, b, now)
    /\ StagedNames(c, b) # {}
    /\ \E row \in CommittedBase(c, b) : row.accessTier = "Archive"
    /\ stageBlock(DB, now, NewBlock(c, b, "AB", 1), Undef).err = "LeaseIdMissing"
    /\ stageBlock(DB, now, NewBlock(c, b, "AAAA", 1), CurrentLeaseId(c, b)).err
         = "InvalidBlobOrBlock"
    /\ startCopyFromURL(DB, now,
                        [container |-> c, blob |-> b, snapshot |-> BaseSnapshot],
                        [container |-> c, blob |-> "b2"], Undef, Undef, Undef,
                        NoConditions, Undef).err = "BlobArchived"
    /\ deleteContainer(DB, now, c, "L1", NoConditions).err = "LeaseNotPresent"

\* every lease duration acquire accepts
AllValidDurations ==
  {InfiniteLeaseDuration} \cup MinLeaseDuration..MaxLeaseDuration

\* how long after the acquire the renew that follows it at once may run
RenewDelays == {0, 1, 5}

\* the lease acquire and then renew must leave: Leased under the id, running
\* d from time t
RenewedLease(lease, id, d, t) ==
  /\ lease.leaseState = "leased"
  /\ lease.leaseId = id
  /\ lease.leaseExpireTime = IF d = InfiniteLeaseDuration THEN NoTime ELSE t + d

\* C8: for every valid lease duration d, acquire on an Available blob or
\* container followed at once by renew with the lease id acquire returned
\* succeeds, and the renewed lease expires at the renew's time + d, or never when
\* d = -1.
C8_AcquireThenRenewSucceeds ==
  \A c \in ContainerNames, st \in StartTimes, d \in AllValidDurations,
     id \in LeaseIdHeaders, delay \in RenewDelays :
    /\ \A b \in BlobNames :
         BlobAvailableAt(c, b, st) =>
           LET r1 == acquireBlobLease(DB, st, c, b, d, id, NoConditions)
               r2 == renewBlobLease(r1.db, st + delay, c, b, r1.leaseId, NoConditions)
           IN  /\ r1.err = Ok
               /\ r2.err = Ok
               /\ RenewedLease(BlobLeaseIn(r2.db, c, b), r1.leaseId, d, st + delay)
    /\ ContainerAvailableAt(c, st) =>
         LET r1 == acquireContainerLease(DB, st, c, d, id, NoConditions)
             r2 == renewContainerLease(r1.db, st + delay, c, r1.leaseId, NoConditions)
         IN  /\ r1.err = Ok
             /\ r2.err = Ok
             /\ RenewedLease(ContainerLeaseIn(r2.db, c), r1.leaseId, d, st + delay)

\* a blob whose lease was released is acquired for 15 and renewed 5 later: the
\* lease then expires 20 from the acquire; a container acquired for ever and
\* renewed never expires
C8_Witness ==
  \E c \in ContainerNames, b \in BlobNames :
    /\ BlobLeaseIn(DB, c, b) = AvailableLease
    /\ ContainerAvailableAt(c, now)
    /\ LET r1 == acquireBlobLease(DB, now, c, b, MinLeaseDuration, "L1", NoConditions)
           r2 == renewBlobLease(r1.db, now + 5, c, b, r1.leaseId, NoConditions)
       IN  /\ r1.err = Ok /\ r2.err = Ok
           /\ BlobLeaseIn(r1.db, c, b).leaseExpireTime = now + MinLeaseDuration
           /\ BlobLeaseIn(r2.db, c, b).leaseExpireTime = now + 5 + MinLeaseDuration
    /\ LET r1 == acquireContainerLease(DB, now, c, InfiniteLeaseDuration, "L2",
                                       NoConditions)
           r2 == renewContainerLease(r1.db, now, c, r1.leaseId, NoConditions)
       IN  /\ r1.err = Ok /\ r2.err = Ok
           /\ ContainerLeaseIn(r2.db, c).leaseExpireTime = NoTime

\* the lease the entity presents at time t is Leased
ContainerLeasedAt(c, t) ==
  \E r \in ContainerRow(c) : createLeaseState(r.lease, t).leaseState = "leased"

\* C9: acquire on a blob or container whose lease is Leased fails with
\* LeaseAlreadyPresent and leaves the lease as it was, when the proposed lease
\* id is the current lease id as when it is another.
C9_AcquireOnLeasedFails ==
  \A c \in ContainerNames, st \in StartTimes, d \in ValidDurations,
     id \in LeaseIdHeaders :
    /\ \A b \in BlobNames :
         LeasedAt(c, b, st) =>
           LET r == acquireBlobLease(DB, st, c, b, d, id, NoConditions)
           IN  /\ r.err = "LeaseAlreadyPresent"
               /\ BlobLeaseIn(r.db, c, b) = BlobLeaseIn(DB, c, b)
    /\ ContainerLeasedAt(c, st) =>
         LET r == acquireContainerLease(DB, st, c, d, id, NoConditions)
         IN  /\ r.err = "LeaseAlreadyPresent"
             /\ ContainerLeaseIn(r.db, c) = ContainerLeaseIn(DB, c)

\* a container and a blob leased under "L1": an acquire under "L1" and one under
\* "L2" both meet LeaseAlreadyPresent
C9_Witness ==
  \E c \in ContainerNames, b \in BlobNames :
    /\ ContainerLeasedAt(c, now) /\ ContainerLeaseIn(DB, c).leaseId = "L1"
    /\ LeasedAt(c, b, now) /\ CurrentLeaseId(c, b) = "L1"
    /\ \A id \in LeaseIds :
         /\ acquireContainerLease(DB, now, c, MinLeaseDuration, id, NoConditions).err
              = "LeaseAlreadyPresent"
         /\ acquireBlobLease(DB, now, c, b, MinLeaseDuration, id, NoConditions).err
              = "LeaseAlreadyPresent"

\* the break periods of a request: none, and 0 to the longest lease duration
AllBreakPeriods == {NoTime} \cup 0..MaxLeaseDuration

\* what a break at time t with that period may make of the lease before:
\* Breaking or Broken stays so with a break time no later than it was, and a
\* Leased lease of fixed duration broken with a period goes Breaking until
\* min(expire time, t + period)
BreakNeverLengthens(before, after, t, period) ==
  /\ before.leaseState \in {"breaking", "broken"} =>
       /\ after.leaseState \in {"breaking", "broken"}
       /\ after.leaseBreakTime <= before.leaseBreakTime
  /\ before.leaseState = "leased" /\ before.leaseExpireTime # NoTime
       /\ period # NoTime =>
       /\ after.leaseState = "breaking"
       /\ after.leaseBreakTime = Min(before.leaseExpireTime, t + period)

\* C10: a break never lengthens a lease: on a blob or container whose lease is
\* Breaking or Broken a further break, with any period, succeeds and leaves the
\* break time no later than before, and on a Leased lease of fixed duration a
\* break with a period sets the break time to min(expire time, now + period).
C10_BreakNeverLengthens ==
  \A c \in ContainerNames, st \in StartTimes, p \in AllBreakPeriods :
    /\ \A b \in BlobNames :
         \A row \in CommittedBase(c, b) :
           LET before == createLeaseState(row.lease, st)
               r == breakBlobLease(DB, st, c, b, p, NoConditions)
           IN  before.leaseState \in {"leased", "breaking", "broken"} =>
                 /\ r.err = Ok
                 /\ BreakNeverLengthens(before, BlobLeaseIn(r.db, c, b), st, p)
    /\ \A row \in ContainerRow(c) :
         LET before == createLeaseState(row.lease, st)
             r == breakContainerLease(DB, st, c, p, NoConditions)
         IN  before.leaseState \in {"leased", "breaking", "broken"} =>
               /\ r.err = Ok
               /\ BreakNeverLengthens(before, ContainerLeaseIn(r.db, c), st, p)

\* a container Leased with 5 left is broken with period 10 and goes Breaking
\* until its expire time; a blob Breaking is broken again with a longer period
\* and keeps its break time, and with period 0 it loses the time it had left
C10_Witness ==
  \E c \in ContainerNames, b \in BlobNames :
    /\ ContainerLeasedAt(c, now)
    /\ ContainerLeaseIn(DB, c).leaseExpireTime = now + 5
    /\ LET r == breakContainerLease(DB, now, c, 10, NoConditions)
       IN  /\ r.err = Ok
           /\ ContainerLeaseIn(r.db, c).leaseState = "breaking"
           /\ ContainerLeaseIn(r.db, c).leaseBreakTime = now + 5
    /\ \E row \in CommittedBase(c, b) :
         /\ createLeaseState(row.lease, now).leaseState = "breaking"
         /\ row.lease.leaseBreakTime > now
         /\ BlobLeaseIn(breakBlobLease(DB, now, c, b, MaxLeaseDuration,
                                       NoConditions).db, c, b).leaseBreakTime
              = row.lease.leaseBreakTime
         /\ BlobLeaseIn(breakBlobLease(DB, now, c, b, 0, NoConditions).db,
                        c, b).leaseBreakTime = now

\* the committed base blob stores a fixed-duration lease in state Leased whose
\* expire time is at or before t
StoredLeaseRanOutAt(c, b, t) ==
  \E r \in CommittedBase(c, b) :
    /\ r.lease.leaseState = "leased"
    /\ r.lease.leaseExpireTime # NoTime
    /\ r.lease.leaseExpireTime <= t

\* C11: a fixed-duration lease stored as Leased whose expire time is at or
\* before the request's time is no longer held: with no operation having
\* rewritten the stored lease, a write on the blob without lease id succeeds
\* and an acquire with any id and any valid duration succeeds and holds the
\* lease under the id it returns.
C11_RunOutLeaseIsNotHeld ==
  \A c \in ContainerNames, b \in BlobNames, st \in StartTimes :
    StoredLeaseRanOutAt(c, b, st) =>
      /\ \A m \in Metadatas :
           setBlobMetadata(DB, st, c, b, Undef, m, NoConditions).err = Ok
      /\ \A h \in ContentTypes :
           setBlobHTTPHeaders(DB, st, c, b, Undef, h, NoConditions).err = Ok
      /\ \A tags \in TagSets :
           setBlobTag(DB, st, c, b, BaseSnapshot, Undef, tags, NoConditions).err = Ok
      /\ \A id \in LeaseIdHeaders, d \in AllValidDurations :
           LET r == acquireBlobLease(DB, st, c, b, d, id, NoConditions)
           IN  /\ r.err = Ok
               /\ BlobLeaseIn(r.db, c, b).leaseState = "leased"
               /\ BlobLeaseIn(r.db, c, b).leaseId = r.leaseId
               /\ id # Undef => r.leaseId = id

\* the blob stores a lease under "L1" that ran out: a metadata write without
\* lease id goes through and "L2" acquires the lease
C11_Witness ==
  \E c \in ContainerNames, b \in BlobNames :
    /\ StoredLeaseRanOutAt(c, b, now)
    /\ BlobLeaseIn(DB, c, b).leaseId = "L1"
    /\ setBlobMetadata(DB, now, c, b, Undef, "m1", NoConditions).err = Ok
    /\ LET r == acquireBlobLease(DB, now, c, b, MinLeaseDuration, "L2", NoConditions)
       IN  r.err = Ok /\ BlobLeaseIn(r.db, c, b).leaseId = "L2"

\* the names of the containers a listing with prefix p and marker m matches
MatchingNames(p, m) ==
  {r.containerName : r \in {x \in containers :
     HasPrefix(x.containerName, p) /\ NameLess(m, x.containerName)}}

\* C12: listContainers with marker M and page size N >= 1 returns only
\* containers whose name is strictly greater than M (and has the prefix asked
\* for), in ascending name order, at most N of them, and returns a next marker
\* if and only if more than N matching containers exist beyond M; the next
\* marker is the name of the last entry of the page.
C12_ListContainersPages ==
  \A p \in ListPrefixes, m \in ListMarkers, n \in PageSizes, st \in StartTimes :
    LET res == listContainers(DB, st, p, n, m)
        page == res.containers
    IN  /\ \A i \in 1..Len(page) : page[i].containerName \in MatchingNames(p, m)
        /\ \A i \in 1..Len(page) : NameLess(m, page[i].containerName)
        /\ \A i, j \in 1..Len(page) :
             i < j => NameLess(page[i].containerName, page[j].containerName)
        /\ Len(page) <= n
        /\ res.nextMarker # Undef <=> Cardinality(MatchingNames(p, m)) > n
        /\ res.nextMarker # Undef => res.nextMarker = page[Len(page)].containerName

\* four containers; a page of two after marker "a" holds "ab" and "b" and
\* names "b" as the next marker, and the page after "b" holds "b1" and ends
\* the listing
C12_Witness ==
  /\ {r.containerName : r \in containers} = ListedNames
  /\ LET res == listContainers(DB, now, "", 2, "a")
         more == listContainers(DB, now, "", 2, res.nextMarker)
     IN  /\ Len(res.containers) = 2
         /\ res.containers[1].containerName = "ab"
         /\ res.containers[2].containerName = "b"
         /\ res.nextMarker = "b"
         /\ Len(more.containers) = 1
         /\ more.containers[1].containerName = "b1"
         /\ more.nextMarker = Undef

\* the live rows of the blob name: the base blob and its snapshots
RowsOf(c, b) ==
  {r \in blobs : r.containerName = c /\ r.blobName = b /\ r.deleting = 0}

\* the snapshots of the blob
SnapshotsOf(c, b) == {r \in RowsOf(c, b) : r.snapshot # BaseSnapshot}

\* a delete of the committed base blob under this lease id and these
\* conditions passes the validation of both
BaseDeleteAdmitted(c, b, st, id, cond) ==
  /\ CommittedBase(c, b) # {}
  /\ validateWriteConditions(cond, CommittedBase(c, b)) = Ok
  /\ \A r \in CommittedBase(c, b) :
       WriteLeaseValidator(createLeaseState(r.lease, st), id) = Ok

\* C13: deleteBlob against a base blob: with no deleteSnapshots option it
\* fails with SnapshotsPresent and deletes nothing if the blob has a snapshot,
\* and removes the base blob otherwise; with include it removes the base blob
\* and every snapshot; with only it removes every snapshot and leaves the
\* base blob row unchanged.
C13_DeleteBaseBlobBySnapshotsOption ==
  \A c \in ContainerNames, b \in BlobNames, st \in StartTimes,
     id \in LeaseIdHeaders, cond \in SomeConditions :
    BaseDeleteAdmitted(c, b, st, id, cond) =>
      LET plain == deleteBlob(DB, st, c, b, BaseSnapshot, Undef, id, cond)
          include == deleteBlob(DB, st, c, b, BaseSnapshot, "include", id, cond)
          only == deleteBlob(DB, st, c, b, BaseSnapshot, "only", id, cond)
      IN  /\ IF SnapshotsOf(c, b) # {}
               THEN plain.err = "SnapshotsPresent" /\ plain.db = DB
               ELSE plain.err = Ok /\ plain.db.blobs = blobs \ CommittedBase(c, b)
          /\ include.err = Ok
          /\ include.db.blobs = blobs \ RowsOf(c, b)
          /\ only.err = Ok
          /\ only.db.blobs = blobs \ SnapshotsOf(c, b)
          /\ CommittedBase(c, b) \subseteq only.db.blobs

\* a blob with two snapshots: the plain delete is refused, include leaves no
\* row of the blob, only leaves the base blob alone
C13_Witness ==
  \E c \in ContainerNames, b \in BlobNames :
    /\ CommittedBase(c, b) # {}
    /\ Cardinality(SnapshotsOf(c, b)) = 2
    /\ deleteBlob(DB, now, c, b, BaseSnapshot, Undef, Undef, NoConditions).err
         = "SnapshotsPresent"
    /\ deleteBlob(DB, now, c, b, BaseSnapshot, "include", Undef, NoConditions).db.blobs
         = {}
    /\ deleteBlob(DB, now, c, b, BaseSnapshot, "only", Undef, NoConditions).db.blobs
         = CommittedBase(c, b)

\* the block rows of the blob name in the tables db, live or marked by a commit
BlockRowsIn(db, c, b) ==
  {i \in 1..Len(db.blocks) :
     db.blocks[i].containerName = c /\ db.blocks[i].blobName = b}

\* every way to address a delete: the base blob or a snapshot, with each option
DeleteTargets == ({BaseSnapshot} \cup SnapshotIds) \X DeleteSnapshotsOptions

\* C14 as first stated: after any successful deleteBlob, of the base blob
\* alone, of one snapshot, of the base with all snapshots or of all snapshots
\* only, no staged block of that blob name remains in the store.
C14_AnyDeleteLeavesNoStagedBlock ==
  \A c \in ContainerNames, b \in BlobNames, st \in StartTimes,
     target \in DeleteTargets, id \in LeaseIdHeaders, cond \in SomeConditions :
    LET r == deleteBlob(DB, st, c, b, target[1], target[2], id, cond)
    IN  r.err = Ok => BlockRowsIn(r.db, c, b) = {}

\* C14: after a successful deleteBlob of the base blob alone or of the base
\* with all its snapshots (include) no block row of that blob name remains in
\* the store; a successful deleteBlob of one snapshot or of all snapshots
\* only leaves the block rows, which belong to the base blob that stays,
\* exactly as they were.
C14_DeleteOfBaseLeavesNoStagedBlock ==
  \A c \in ContainerNames, b \in BlobNames, st \in StartTimes,
     target \in DeleteTargets, id \in LeaseIdHeaders, cond \in SomeConditions :
    LET r == deleteBlob(DB, st, c, b, target[1], target[2], id, cond)
    IN  r.err = Ok =>
          IF target[1] = BaseSnapshot /\ target[2] \in {Undef, "include"}
            THEN BlockRowsIn(r.db, c, b) = {}
            ELSE r.db.blocks = blocks

\* a blob with a snapshot and a block row a commit has marked: deleting with
\* include leaves no block row, deleting the snapshot or all snapshots leaves
\* the row
C14_Witness ==
  \E c \in ContainerNames, b \in BlobNames, s \in SnapshotIds :
    /\ \E i \in BlockRowsIn(DB, c, b) : blocks[i].deleting > 0
    /\ \E r \in SnapshotsOf(c, b) : r.snapshot = s
    /\ LET include == deleteBlob(DB, now, c, b, BaseSnapshot, "include", Undef,
                                 NoConditions)
           one == deleteBlob(DB, now, c, b, s, Undef, Undef, NoConditions)
           only == deleteBlob(DB, now, c, b, BaseSnapshot, "only", Undef, NoConditions)
       IN  /\ include.err = Ok /\ include.db.blocks = <<>>
           /\ one.err = Ok /\ one.db.blocks = blocks
           /\ only.err = Ok /\ only.db.blocks = blocks

\* the rows of the tables db stored under the snapshot id s of the blob
SnapshotRowsIn(db, c, b, s) ==
  {r \in db.blobs : r.containerName = c /\ r.blobName = b /\ r.snapshot = s
                    /\ r.deleting = 0}

\* the row snap is the copy of the row base taken under snapshot id s with
\* the metadata m asked for: content properties, tags and committed block
\* list are those of base, every lease field is cleared
SnapshotOfBase(snap, base, s, m) ==
  /\ snap.snapshot = s
  /\ snap.containerName = base.containerName /\ snap.blobName = base.blobName
  /\ snap.isCommitted
  /\ snap.etag = base.etag /\ snap.lastModified = base.lastModified
  /\ snap.creationTime = base.creationTime
  /\ snap.blobType = base.blobType /\ snap.accessTier = base.accessTier
  /\ snap.contentLength = base.contentLength
  /\ snap.contentType = base.contentType
  /\ snap.blobTags = base.blobTags
  /\ snap.committedBlocksInOrder = base.committedBlocksInOrder
  /\ snap.metadata = IF m # Undef THEN m ELSE base.metadata
  /\ snap.lease = ClearedLease

\* C15: a successful createSnapshot on a committed base blob stores one row
\* whose snapshot id is the request timestamp and whose content properties,
\* tags, committed block list and metadata (unless new metadata is supplied)
\* are those of the base blob, with every lease field cleared; the row is added
\* when the id was free; the base blob row with its lease, every other row
\* and the blocks are left unchanged.
C15_CreateSnapshotCopiesBase ==
  \A c \in ContainerNames, b \in BlobNames, st \in StartTimes,
     id \in LeaseIdHeaders, m \in Metadatas, cond \in SomeConditions :
    LET r == createSnapshot(DB, st, c, b, id, m, cond)
        s == SnapshotTime(st)
        before == SnapshotRowsIn(DB, c, b, s)
        after == SnapshotRowsIn(r.db, c, b, s)
    IN  r.err = Ok =>
          /\ CommittedBase(c, b) # {}
          /\ Cardinality(after) = 1
          /\ \A snap \in after, base \in CommittedBase(c, b) :
               SnapshotOfBase(snap, base, s, m)
          /\ r.db.blobs \ after = blobs \ before
          /\ CommittedBase(c, b) \subseteq r.db.blobs
          /\ before = {} => Cardinality(r.db.blobs) = Cardinality(blobs) + 1
          /\ r.db.blocks = blocks
          /\ r.db.containers = containers

\* a blob leased for ever under "L1", with tags and metadata written, is
\* snapshotted under its lease id at a time it has no snapshot of: the
\* snapshot carries the tags and the metadata and no lease, the base blob
\* keeps its lease
C15_Witness ==
  \E c \in ContainerNames, b \in BlobNames :
    /\ \E base \in CommittedBase(c, b) :
         /\ base.lease.leaseState = "leased" /\ base.lease.leaseId = "L1"
         /\ base.blobTags = "t1" /\ base.metadata = "m2"
    /\ SnapshotRowsIn(DB, c, b, SnapshotTime(now)) = {}
    /\ SnapshotsOf(c, b) # {}
    /\ LET r == createSnapshot(DB, now, c, b, "L1", Undef, NoConditions)
       IN  /\ r.err = Ok
           /\ \A snap \in SnapshotRowsIn(r.db, c, b, SnapshotTime(now)) :
                /\ snap.blobTags = "t1" /\ snap.metadata = "m2"
                /\ snap.lease = ClearedLease
           /\ BlobLeaseIn(r.db, c, b).leaseId = "L1"
           /\ Cardinality(r.db.blobs) = Cardinality(blobs) + 1

\* C16: snapshots are immutable: a snapshot row of a blob keeps exactly the
\* same properties, metadata, tags and committed block list under every later
\* store operation that does not delete it - a write on the base blob, a
\* setBlobTag addressed to the snapshot, a further createSnapshot issued with
\* the same request timestamp.
C16_SnapshotsAreImmutable ==
  \A c \in ContainerNames, b \in BlobNames, st \in StartTimes,
     id \in LeaseIdHeaders, cond \in SomeConditions :
    \A snap \in SnapshotsOf(c, b) :
      /\ \A m \in Metadatas :
           snap \in setBlobMetadata(DB, st, c, b, id, m, cond).db.blobs
      /\ \A tags \in TagSets :
           snap \in setBlobTag(DB, st, c, b, BaseSnapshot, id, tags, cond).db.blobs
      /\ \A tags \in TagSets :
           snap \in setBlobTag(DB, st, c, b, snap.snapshot, id, tags, cond).db.blobs
      /\ \A m \in Metadatas :
           snap \in createSnapshot(DB, st, c, b, id, m, cond).db.blobs

\* C17: in every reachable state there is at most one live blob row for any
\* (container, blob name, snapshot id) of the account: createBlob, stageBlock's
\* placeholder creation, commitBlockList, createSnapshot and startCopyFromURL
\* replace the row of the same key and add no second one.
C17_OneLiveRowPerKey ==
  \A r, s \in blobs : r.deleting = 0 /\ SameBlobKey(r, s) => r = s

\* a committed blob with a snapshot taken at this time: createBlob,
\* commitBlockList and startCopyFromURL onto the blob and createSnapshot at
\* the same time each write a row that differs from the one stored under its
\* key and leave as many rows as there were
C17_Witness ==
  \E c \in ContainerNames, b \in BlobNames :
    /\ CommittedBase(c, b) # {}
    /\ SnapshotRowsIn(DB, c, b, SnapshotTime(now)) # {}
    /\ \A snap \in SnapshotRowsIn(DB, c, b, SnapshotTime(now)), base \in CommittedBase(c, b) :
         snap.etag # base.etag
    /\ LET created == createBlob(DB, now, NewBlob(c, b, now, newEtag(DB), Undef, Undef),
                                 Undef, NoConditions)
           committed == commitBlockList(DB, now,
                                        NewBlob(c, b, now, newEtag(DB), Undef, Undef),
                                        <<>>, Undef, NoConditions)
           copied == startCopyFromURL(DB, now,
                       [container |-> c, blob |-> b, snapshot |-> BaseSnapshot],
                       [container |-> c, blob |-> b], Undef, Undef, Undef,
                       NoConditions, Undef)
           snapped == createSnapshot(DB, now, c, b, Undef, Undef, NoConditions)
       IN  /\ created.err = Ok /\ committed.err = Ok /\ copied.err = Ok
           /\ snapped.err = Ok
           /\ created.db.blobs # blobs /\ committed.db.blobs # blobs
           /\ copied.db.blobs # blobs /\ snapped.db.blobs # blobs
           /\ Cardinality(created.db.blobs) = Cardinality(blobs)
           /\ Cardinality(committed.db.blobs) = Cardinality(blobs)
           /\ Cardinality(copied.db.blobs) = Cardinality(blobs)
           /\ Cardinality(snapped.db.blobs) = Cardinality(blobs)

\* the rows of the Blocks table under the key of the block
BlockRowsNamed(db, block) ==
  {i \in 1..Len(db.blocks) : SameBlockKey(db.blocks[i], block)}

\* the tables of the two stores hold the same rows
SameTables(d1, d2) ==
  /\ d1.containers = d2.containers /\ d1.blobs = d2.blobs
  /\ d1.blocks = d2.blocks

\* C18: stageBlock is an idempotent upsert. Staging a block of the same
\* (container, blob name, block name) twice leaves the store as staging it
\* once with the last size and locator does: exactly one block row of that
\* name, exactly one blob row of the blob name, and the second call succeeds
\* whenever the first one did.
C18_StageBlockIsIdempotentUpsert ==
  \A c \in ContainerNames, b \in BlobNames, n \in BlockNames,
     s1 \in BlockSizes, s2 \in BlockSizes :
    LET first == stageBlock(DB, now, NewBlock(c, b, n, s1), Undef)
        second == stageBlock(first.db, now, NewBlock(c, b, n, s2), Undef)
        once == stageBlock(DB, now, NewBlock(c, b, n, s2), Undef)
    IN  first.err = Ok =>
          /\ second.err = Ok
          /\ once.err = Ok
          /\ SameTables(second.db, once.db)
          /\ Cardinality(BlockRowsNamed(second.db, NewBlock(c, b, n, s2))) = 1
          /\ \A i \in BlockRowsNamed(second.db, NewBlock(c, b, n, s2)) :
               second.db.blocks[i] = NewBlock(c, b, n, s2)
          /\ Cardinality(FindBlob(second.db, c, b, BaseSnapshot)) = 1

\* the block "AA" is staged with size 1 for a blob that is still a
\* placeholder, next to a block of another name; staging "AA" again with
\* size 2 succeeds and rewrites the one row
C18_Witness ==
  \E c \in ContainerNames, b \in BlobNames :
    /\ \E r \in FindBlob(DB, c, b, BaseSnapshot) : ~r.isCommitted
    /\ \E i \in 1..Len(blocks) : blocks[i] = NewBlock(c, b, "AA", 1)
    /\ \E i \in 1..Len(blocks) : blocks[i] = NewBlock(c, b, "AB", 1)
    /\ LET again == stageBlock(DB, now, NewBlock(c, b, "AA", 2), Undef)
       IN  /\ again.err = Ok
           /\ again.db.blocks # blocks
           /\ Len(again.db.blocks) = Len(blocks)
           /\ again.db.blobs = blobs

\* the uncommitted rows stored under the base key of the blob
Placeholders(db, c, b) == {r \in FindBlob(db, c, b, BaseSnapshot) : ~r.isCommitted}

\* the tables without those blob rows
WithoutBlobRows(db, rows) == [db EXCEPT !.blobs = db.blobs \ rows]

\* the answers of the three reads of the base blob, for a lease id and conditions
BlobReads(db, c, b, id, cond) ==
  <<getBlobProperties(db, now, c, b, BaseSnapshot, id, cond),
    downloadBlob(db, now, c, b, BaseSnapshot, id, cond),
    getBlobTag(db, now, c, b, BaseSnapshot, id, cond, Undef)>>

\* C19: stageBlock on a blob name that does not exist leaves an uncommitted
\* placeholder row (isCommitted false, content length 0).  While the row is
\* there, getBlobProperties, downloadBlob and getBlobTag answer as they would
\* without it (BlobNotFound when no condition is given), createSnapshot and
\* the five lease operations fail with BlobNotFound and write nothing,
\* listBlobs omits the row unless uncommitted blobs are asked for, and more
\* staging keeps it; a createBlob or commitBlockList that succeeds ends it.
C19_PlaceholderIsInvisible ==
  \A c \in ContainerNames, b \in BlobNames :
    /\ FindBlob(DB, c, b, BaseSnapshot) = {} /\ assertContainerExists(DB, c) = Ok =>
         \A n \in BlockNames, size \in BlockSizes :
           LET res == stageBlock(DB, now, NewBlock(c, b, n, size), Undef)
           IN  /\ res.err = Ok
               /\ Cardinality(FindBlob(res.db, c, b, BaseSnapshot)) = 1
               /\ \A r \in FindBlob(res.db, c, b, BaseSnapshot) :
                    ~r.isCommitted /\ r.contentLength = 0
    /\ \A row \in Placeholders(DB, c, b) :
         /\ row.contentLength = 0
         /\ \A id \in {Undef, "L1"}, cond \in AllConditions :
              /\ BlobReads(DB, c, b, id, cond)
                   = BlobReads(WithoutBlobRows(DB, {row}), c, b, id, cond)
              /\ \A i \in 1..3 : BlobReads(DB, c, b, id, cond)[i].rows = {}
              /\ \A i \in 1..3 :
                   BlobReads(DB, c, b, id, NoConditions)[i].err = "BlobNotFound"
              /\ createSnapshot(DB, now, c, b, id, Undef, NoConditions)
                   = Fail(DB, "BlobNotFound")
         /\ \A res \in BlobLeaseWrites(DB, c, b) :
              res.err = "BlobNotFound" /\ res.db = DB
         /\ \A name \in {Undef, b}, snaps \in BOOLEAN :
              /\ \A r \in listBlobs(DB, now, c, name, snaps, FALSE).rows :
                   r.isCommitted /\ ~(r.blobName = b /\ r.snapshot = BaseSnapshot)
              /\ \E r \in listBlobs(DB, now, c, name, snaps, TRUE).rows :
                   ~r.isCommitted /\ r.blobName = b /\ r.etag = row.etag
         /\ \A n \in BlockNames, size \in BlockSizes :
              stageBlock(DB, now, NewBlock(c, b, n, size), Undef).db.blobs = blobs
         /\ \A res \in
                {createBlob(DB, now, NewBlob(c, b, now, newEtag(DB), Undef, Undef),
                            Undef, NoConditions)}
                  \cup {commitBlockList(DB, now,
                                        NewBlob(c, b, now, newEtag(DB), Undef, Undef),
                                        list, Undef, NoConditions) :
                          list \in ShortBlockLists} :
              res.err = Ok =>
                /\ Placeholders(res.db, c, b) = {}
                /\ FindCommittedBlob(res.db, c, b, BaseSnapshot) # {}

\* a placeholder with its staged block, some time after the blob of that name
\* was deleted: the reads do not find it, the listing that asks for
\* uncommitted blobs shows it, and a commit of the block ends it
C19_Witness ==
  \E c \in ContainerNames, b \in BlobNames :
    /\ Placeholders(DB, c, b) # {}
    /\ BlockRowsIn(DB, c, b) # {}
    /\ getBlobProperties(DB, now, c, b, BaseSnapshot, Undef, NoConditions).err
         = "BlobNotFound"
    /\ listBlobs(DB, now, c, Undef, FALSE, FALSE).rows = {}
    /\ listBlobs(DB, now, c, Undef, FALSE, TRUE).rows # {}
    /\ \E list \in ShortBlockLists :
         commitBlockList(DB, now, NewBlob(c, b, now, newEtag(DB), Undef, Undef),
                         list, Undef, NoConditions).err = Ok

\* C20: stageBlock on an existing blob whose access tier is Archive fails
\* with BlobArchived and stages no block (for calls the lease of the blob
\* lets through).
C20_StageBlockOnArchivedBlobFails ==
  \A c \in ContainerNames, b \in BlobNames :
    \A row \in CommittedBase(c, b) :
      row.accessTier = "Archive" =>
        \A n \in BlockNames, size \in BlockSizes, id \in LeaseIdHeaders :
          LET res == stageBlock(DB, now, NewBlock(c, b, n, size), id)
          IN  WriteLeaseValidator(createLeaseState(row.lease, now), id) = Ok =>
                res.err = "BlobArchived" /\ res.db.blocks = blocks

\* the staged live blocks of the blob under that name, as block list entries
StagedEntries(c, b, name) ==
  {[name |-> blocks[i].blockName, size |-> blocks[i].size,
    persistency |-> blocks[i].persistency] :
     i \in {j \in 1..Len(blocks) : /\ blocks[j].containerName = c
                                   /\ blocks[j].blobName = b
                                   /\ blocks[j].blockName = name
                                   /\ blocks[j].deleting = 0}}

\* the entries of the blob's committed block list under that name
CommittedEntries(c, b, name) ==
  UNION {{r.committedBlocksInOrder[i] :
            i \in {j \in 1..Len(r.committedBlocksInOrder) :
                     r.committedBlocksInOrder[j].name = name}} :
           r \in CommittedBase(c, b)}

\* the blocks an item of a block list may resolve to
ResolvedEntries(c, b, item) ==
  CASE item.blockCommitType = "Uncommitted" -> StagedEntries(c, b, item.blockName)
    [] item.blockCommitType = "Committed" -> CommittedEntries(c, b, item.blockName)
    [] item.blockCommitType = "Latest" ->
         IF StagedEntries(c, b, item.blockName) # {}
           THEN StagedEntries(c, b, item.blockName)
           ELSE CommittedEntries(c, b, item.blockName)
    [] OTHER -> {}

\* the sizes of the first n entries of the list, added up
RECURSIVE SizesUpTo(_, _)
SizesUpTo(list, n) == IF n = 0 THEN 0 ELSE list[n].size + SizesUpTo(list, n - 1)

\* C21: after a successful commitBlockList the committed block list of the
\* blob is the sequence of the blocks the request resolves to, in request
\* order, and the content length of the blob is the sum of their sizes (0 for
\* the empty list).
C21_CommitStoresResolvedListAndLength ==
  \A c \in ContainerNames, b \in BlobNames, list \in BlockLists :
    LET res == PlainCommit(c, b, list)
        rows == FindCommittedBlob(res.db, c, b, BaseSnapshot)
    IN  res.err = Ok =>
          /\ Cardinality(rows) = 1
          /\ \A row \in rows :
               /\ Len(row.committedBlocksInOrder) = Len(list)
               /\ \A i \in 1..Len(list) :
                    /\ row.committedBlocksInOrder[i].name = list[i].blockName
                    /\ row.committedBlocksInOrder[i] \in ResolvedEntries(c, b, list[i])
               /\ row.contentLength
                    = SizesUpTo(row.committedBlocksInOrder, Len(list))

\* "AA" is staged with size 2 and "AB" is in the committed list with size 1:
\* the commit of <<AB committed, AA uncommitted>> succeeds and stores the two
\* blocks in that order with content length 3; the empty commit stores length 0
C21_Witness ==
  \E c \in ContainerNames, b \in BlobNames :
    /\ StagedEntries(c, b, "AA") = {[name |-> "AA", size |-> 2, persistency |-> 2]}
    /\ CommittedEntries(c, b, "AB") = {[name |-> "AB", size |-> 1, persistency |-> 1]}
    /\ LET res == PlainCommit(c, b, <<[blockName |-> "AB", blockCommitType |-> "Committed"],
                                      [blockName |-> "AA", blockCommitType |-> "Uncommitted"]>>)
       IN  /\ res.err = Ok
           /\ \A row \in FindCommittedBlob(res.db, c, b, BaseSnapshot) :
                /\ row.contentLength = 3
                /\ row.committedBlocksInOrder[1].name = "AB"
                /\ row.committedBlocksInOrder[2].name = "AA"
    /\ LET res == PlainCommit(c, b, <<>>)
       IN  /\ res.err = Ok
           /\ \A row \in FindCommittedBlob(res.db, c, b, BaseSnapshot) :
                row.contentLength = 0 /\ row.committedBlocksInOrder = <<>>

\* the items of the block list that the commit resolves to a staged block
TakenFromStaged(c, b, list) ==
  {i \in 1..Len(list) :
     /\ list[i].blockCommitType \in {"Uncommitted", "Latest"}
     /\ StagedEntries(c, b, list[i].blockName) # {}}

\* the block rows of the blob, by position, that the block list takes
ReferencedRows(c, b, list) ==
  {j \in 1..Len(blocks) :
     /\ blocks[j].containerName = c /\ blocks[j].blobName = b
     /\ blocks[j].deleting = 0
     /\ \E i \in TakenFromStaged(c, b, list) : list[i].blockName = blocks[j].blockName}

ObservedLease(row) == LeaseSyncer(createLeaseState(row.lease, now))

\* the copy of the blob b onto the blob d of the container, with the metadata
\* given, no tier, no tags, no lease id and no conditions
PlainCopy(c, b, d, metadata) ==
  startCopyFromURL(DB, now, [container |-> c, blob |-> b, snapshot |-> BaseSnapshot],
                   [container |-> c, blob |-> d], metadata, Undef, Undef,
                   NoConditions, Undef)

\* C30: after a successful startCopyFromURL the destination row carries the
\* content properties, the tag set and the committed block list of the source
\* blob, the metadata of the source when the caller gives none, a fresh ETag,
\* and, when the destination existed, the lease the destination had.
C30_CopyCarriesSourceAndKeepsLease ==
  \A c \in ContainerNames, b \in BlobNames, d \in BlobNames, metadata \in {Undef, "m1"} :
    LET res == PlainCopy(c, b, d, metadata)
    IN  res.err = Ok =>
          \A source \in CommittedBase(c, b) :
            \A copied \in FindBlob(res.db, c, d, BaseSnapshot) :
              /\ copied.contentLength = source.contentLength
              /\ copied.contentType = source.contentType
              /\ copied.blobType = source.blobType
              /\ copied.committedBlocksInOrder = source.committedBlocksInOrder
              /\ copied.metadata = IF metadata = Undef THEN source.metadata ELSE metadata
              /\ copied.blobTags = source.blobTags
              /\ copied.etag \notin EtagsInUse
              /\ \A before \in FindBlob(DB, c, d, BaseSnapshot) :
                   copied.lease = ObservedLease(before)

\* the parentheses of the text, in order
RECURSIVE Parentheses(_)
Parentheses(str) ==
  IF str = "" THEN ""
  ELSE (IF SubSeq(str, 1, 1) \in {"(", ")"} THEN SubSeq(str, 1, 1) ELSE "")
         \o Parentheses(SubSeq(str, 2, Len(str)))

\* every ")" of the text closes a "(" opened before it and every "(" is
\* closed: open counts the parentheses waiting to be closed
RECURSIVE BalancedFrom(_, _)
BalancedFrom(str, open) ==
  IF str = "" THEN open = 0
  ELSE IF SubSeq(str, 1, 1) = "(" THEN BalancedFrom(SubSeq(str, 2, Len(str)), open + 1)
  ELSE open > 0 /\ BalancedFrom(SubSeq(str, 2, Len(str)), open - 1)

Balanced(str) == BalancedFrom(Parentheses(str), 0)

\* C23: for every filter, Transform returns a tree only if every ")" closes
\* a "(" opened before it and every "(" is closed by the end of the text; on
\* any other text it fails with the unbalanced-parentheses error and with no
\* other failure.
C23_UnbalancedFilterFailsWithParenthesesError ==
  /\ Transform(where).err = Ok => Balanced(where)
  /\ ~Balanced(where) => Transform(where).err = "Expecting ')"

\* C24: parsing a filter in which the operator text of some comparison is
\* not one of =, >=, <=, >, <, the comparison without any operator character
\* included, fails with the invalid-operator error and gives no tree.
C24_IllegalOperatorFails ==
  where \in IllegalOperatorFilters =>
    /\ Transform(where).err = "Invalid operator"
    /\ analysis(where).err = "Invalid operator"

\* the connector tokens of the tokens, nested ones included
RECURSIVE ConnectorsIn(_)
ConnectorsIn(tokens) ==
  IF tokens = <<>> THEN {}
  ELSE LET aToken == Head(tokens)
       IN  (CASE aToken.tokenType = "ConnectorToken" -> {aToken.connector}
              [] aToken.tokenType = "TreeToken" -> ConnectorsIn(aToken.token)
              [] OTHER -> {})
             \cup ConnectorsIn(Tail(tokens))

\* C25: parsing a filter in which the token between two terms is not exactly
\* and / or fails with the invalid-connector error, and no tree that
\* Transform returns holds a connector token with any other text.
C25_IllegalConnectorFails ==
  /\ where \in IllegalConnectorFilters => analysis(where).err = "Invalid connector"
  /\ Transform(where).err = Ok =>
       ConnectorsIn(Transform(where).tree.token) \subseteq {"and", "or"}

\* C26: compiling a tree the parser returned never throws to the caller:
\* when the compilation fails, for a comparison without legal operator, an
\* illegal connector or text that is no expression, the function returned
\* is true of every tag set.
C26_CompilationNeverThrows ==
  Transform(where).err = Ok =>
    LET tree == Transform(where).tree
        fn == TreeToFunction(tree)
    IN  /\ fn.err = Ok
        /\ (TreeToSentence(tree).err # Ok \/ SyntaxError(TreeToSentence(tree).sentence))
             => \A tags \in FilterTagSets : Call(fn, tags)

\* value tokens (comparison or nested tree) at the odd places, connector
\* tokens at the even places, a value token last, at every nesting level
RECURSIVE Alternates(_)
Alternates(tokens) ==
  /\ Len(tokens) > 0 => Len(tokens) % 2 = 1
  /\ \A i \in 1..Len(tokens) :
       /\ i % 2 = 1 => tokens[i].tokenType \in {"TagComparingToken", "TreeToken"}
       /\ i % 2 = 0 => tokens[i].tokenType = "ConnectorToken"
       /\ tokens[i].tokenType = "TreeToken" => Alternates(tokens[i].token)

\* C27: in every tree Transform returns, at every nesting level, the
\* children alternate between value tokens and connector tokens: the first
\* and the last child are value tokens, no two connectors and no two value
\* tokens are adjacent.
C27_ChildrenAlternate ==
  Transform(where).err = Ok => Alternates(Transform(where).tree.token)

\* a comparison, a connector and a nested tree of the same shape
C27_Witness ==
  /\ where = "a='1' and (b>'1' or c<'12')"
  /\ Transform(where).err = Ok
  /\ LET token == Transform(where).tree.token
     IN  /\ Len(token) = 3
         /\ token[2] = ConnectorToken("and")
         /\ token[3].tokenType = "TreeToken"
         /\ Len(token[3].token) = 3
         /\ token[3].token[2] = ConnectorToken("or")

\* the tag value satisfies the operator of the filter against the literal
Satisfies(tagValue, operator, literal) ==
  CASE operator = "=" -> tagValue = literal
    [] operator = "<" -> StringLess(tagValue, literal)
    [] operator = ">" -> StringLess(literal, tagValue)
    [] operator = "<=" -> tagValue = literal \/ StringLess(tagValue, literal)
    [] operator = ">=" -> tagValue = literal \/ StringLess(literal, tagValue)

\* the boolean value of a filter expression on a tag set
RECURSIVE Holds(_, _)
Holds(e, tags) ==
  CASE e.kind = "comparison" ->
         tags[e.key] # Undef /\ Satisfies(tags[e.key], e.operator, e.literal)
    [] e.kind = "and" -> Holds(e.left, tags) /\ Holds(e.right, tags)
    [] e.kind = "or" -> Holds(e.left, tags) \/ Holds(e.right, tags)
    [] e.kind = "group" -> Holds(e.of, tags)

\* C28: for every well-formed filter and every tag set the function that
\* analysis returns gives the boolean value of the expression, a comparison
\* being true iff a tag of the key is present and its value satisfies the
\* operator against the literal, groups evaluated as units: a='1' and
\* (b='2' or c='12') is true on {a:1, b:12, c:12} and false on {a:1}, and a
\* comparison on an absent key is false for every operator.
C28_CompiledFunctionGivesValueOfExpression ==
  /\ \A e \in FilterExprs :
       where = Render(e) =>
         /\ analysis(where).err = Ok
         /\ ~analysis(where).returnTrue
         /\ \A tags \in FilterTagSets : Call(analysis(where), tags) = Holds(e, tags)
  /\ where = "a='1' and (b='2' or c='12')" =>
       /\ Call(analysis(where), [a |-> "1", b |-> "12", c |-> "12"])
       /\ ~Call(analysis(where), [a |-> "1", b |-> Undef, c |-> Undef])
  /\ \A e \in ComparisonExprs :
       where = Render(e) =>
         \A tags \in FilterTagSets :
           tags[e.key] = Undef => ~Call(analysis(where), tags)

\* the filter of the example, compiled and called on both tag sets
C28_Witness ==
  /\ where = "a='1' and (b='2' or c='12')"
  /\ where \in WellFormedFilters
  /\ analysis(where).err = Ok /\ ~analysis(where).returnTrue
  /\ Call(analysis(where), [a |-> "1", b |-> "12", c |-> "12"])
  /\ ~Call(analysis(where), [a |-> "1", b |-> Undef, c |-> Undef])

RowsOfContainer(db, c) ==
  LET In(r) == r.containerName = c
  IN  [blobs |-> {r \in db.blobs : In(r)}, blocks |-> SelectSeq(db.blocks, In)]

\* the tables without the block rows of a container
WithoutBlocksOf(db, c) ==
  LET Other(r) == r.containerName # c
  IN  [db EXCEPT !.blocks = SelectSeq(db.blocks, Other)]

\* C31: after a successful deleteContainer no blob row, no snapshot row and
\* no block row of the container remains, so a container created afterwards
\* under the name lists no blob, staged blocks included; and in every
\* reachable state every blob row and every block row belongs to a
\* container that exists.
C31_DeleteContainerCascades ==
  /\ \A r \in blobs : FindContainer(DB, r.containerName) # {}
  /\ \A i \in 1..Len(blocks) : FindContainer(DB, blocks[i].containerName) # {}
  /\ \A c \in ContainerNames :
       LET res == deleteContainer(DB, now, c, Undef, NoConditions)
           again == createContainer(res.db, NewContainer(c, now, newEtag(res.db), Undef))
       IN  res.err = Ok =>
             /\ FindContainer(res.db, c) = {}
             /\ RowsOfContainer(res.db, c) = [blobs |-> {}, blocks |-> <<>>]
             /\ again.err = Ok
             /\ listBlobs(again.db, now, c, Undef, TRUE, TRUE) = [err |-> Ok, rows |-> {}]
             /\ listUncommittedBlockPersistencyChunks(again.db)
                  = listUncommittedBlockPersistencyChunks(WithoutBlocksOf(DB, c))

\* a container with a base blob, a snapshot of it and a staged block is deleted
C31_Witness ==
  \E c \in ContainerNames :
    /\ \E r \in blobs : r.containerName = c /\ r.snapshot = BaseSnapshot
    /\ \E r \in blobs : r.containerName = c /\ r.snapshot # BaseSnapshot
    /\ \E i \in 1..Len(blocks) : blocks[i].containerName = c /\ blocks[i].deleting = 0
    /\ deleteContainer(DB, now, c, Undef, NoConditions).err = Ok

\* the commit of the one item, and the block lists it may store
CommitOfOne(c, b, name, type) ==
  PlainCommit(c, b, <<[blockName |-> name, blockCommitType |-> type]>>)
StoresOneOf(res, c, b, entries) ==
  /\ res.err = Ok
  /\ FindCommittedBlob(res.db, c, b, BaseSnapshot) # {}
  /\ \A row \in FindCommittedBlob(res.db, c, b, BaseSnapshot) :
       /\ Len(row.committedBlocksInOrder) = 1
       /\ row.committedBlocksInOrder[1] \in entries
       /\ row.contentLength = row.committedBlocksInOrder[1].size

\* C32: in commitBlockList a latest item whose name is both staged and in
\* the blob's committed list resolves to the staged block, with its size and
\* locator; it resolves to the committed block only when no staged block has
\* the name; committed and uncommitted items resolve against their own map
\* only and fail the commit when the name is not in it.
C32_LatestPrefersStagedBlock ==
  \A c \in ContainerNames, b \in BlobNames, name \in BlockNames :
    LET staged == StagedEntries(c, b, name)
        committed == CommittedEntries(c, b, name)
        latest == CommitOfOne(c, b, name, "Latest")
        fromCommitted == CommitOfOne(c, b, name, "Committed")
        fromStaged == CommitOfOne(c, b, name, "Uncommitted")
    IN  /\ staged # {} => StoresOneOf(latest, c, b, staged)
        /\ staged = {} /\ committed # {} => StoresOneOf(latest, c, b, committed)
        /\ staged = {} /\ committed = {} => latest.err = "InvalidBlockList"
        /\ IF committed # {} THEN StoresOneOf(fromCommitted, c, b, committed)
                             ELSE fromCommitted.err = "InvalidBlockList"
        /\ IF staged # {} THEN StoresOneOf(fromStaged, c, b, staged)
                          ELSE fromStaged.err = "InvalidBlockList"

\* "AA" is in the committed list with size 1 and staged again with size 2:
\* latest takes the staged block, committed the committed one
C32_Witness ==
  \E c \in ContainerNames, b \in BlobNames :
    /\ StagedEntries(c, b, "AA") = {[name |-> "AA", size |-> 2, persistency |-> 2]}
    /\ CommittedEntries(c, b, "AA") = {[name |-> "AA", size |-> 1, persistency |-> 1]}
    /\ StoresOneOf(CommitOfOne(c, b, "AA", "Latest"), c, b, StagedEntries(c, b, "AA"))
    /\ StoresOneOf(CommitOfOne(c, b, "AA", "Committed"), c, b, CommittedEntries(c, b, "AA"))
    /\ FindCommittedBlob(CommitOfOne(c, b, "AA", "Latest").db, c, b, BaseSnapshot) # {}

\* C33: a successful commitBlockList resets the lease of the blob: every
\* lease field (id, state, status, duration, expire time, break time) is
\* cleared, whatever lease the blob held and also when the lease holder
\* commits with the lease id; the creation time of a blob that was there
\* before the commit stays as it was.
C33_CommitResetsLeaseKeepsCreationTime ==
  \A c \in ContainerNames, b \in BlobNames, id \in LeaseIdHeaders,
     list \in {<<>>} \cup ShortBlockLists :
    LET res == commitBlockList(DB, now, NewBlob(c, b, now, newEtag(DB), Undef, Undef),
                               list, id, NoConditions)
    IN  res.err = Ok =>
          /\ FindCommittedBlob(res.db, c, b, BaseSnapshot) # {}
          /\ \A row \in FindCommittedBlob(res.db, c, b, BaseSnapshot) :
               /\ row.lease = ClearedLease
               /\ row.lease.leaseId = Undef /\ row.lease.leaseState = Undef
               /\ row.lease.leaseStatus = Undef /\ row.lease.leaseDurationType = Undef
               /\ row.lease.leaseDurationSeconds = NoTime
               /\ row.lease.leaseExpireTime = NoTime /\ row.lease.leaseBreakTime = NoTime
               /\ \A old \in CommittedBase(c, b) : row.creationTime = old.creationTime

\* the blob, created before now, is leased; the holder commits with the lease
\* id and the commit clears the lease and keeps the creation time
C33_Witness ==
  \E c \in ContainerNames, b \in BlobNames :
    /\ LeasedAt(c, b, now)
    /\ \E old \in CommittedBase(c, b) : old.creationTime < now
    /\ LET res == commitBlockList(DB, now, NewBlob(c, b, now, newEtag(DB), Undef, Undef),
                                  <<>>, CurrentLeaseId(c, b), NoConditions)
       IN  /\ res.err = Ok
           /\ \A row \in FindCommittedBlob(res.db, c, b, BaseSnapshot) :
                /\ row.lease.leaseId = Undef /\ row.lease.leaseState = Undef
                /\ row.creationTime < now

\* the parser at the start of Transform
TransformStart ==
  [pos |-> 0, state |-> "Start", expectingRightEmbrace |-> 0, treeStack |-> <<>>,
   currentTree |-> <<>>, defined |-> TRUE, err |-> Ok]

\* the loop of Transform has ended: end of input, or an error thrown
TransformEnded(str, p) == p.err # Ok \/ p.pos >= Len(str)

\* the parser after each of the first n turns of the loop, from p on
RECURSIVE TransformRun(_, _, _)
TransformRun(str, p, n) ==
  IF n = 0 \/ TransformEnded(str, p) THEN <<p>>
  ELSE <<p>> \o TransformRun(str, TransformStep(str, p), n - 1)

\* what is left to scan, counted so that a turn that does not advance the
\* position counts too: Start may hand over to Key or LeftEmbrace, Key to
\* Operator and AfterValue to Connector or RightEmbrace without advancing
TurnsLeft(str, p) ==
  3 * (Len(str) - p.pos)
    + (CASE p.state = "Start" -> 2
         [] p.state \in {"Key", "AfterValue"} -> 1
         [] OTHER -> 0)

\* C34: Transform terminates on every input: each turn of its loop advances
\* the scan position or moves to a state that advances it, so the loop ends,
\* at the end of the input or with an error, after at most three turns for
\* each character.
C34_TransformTerminates ==
  LET run == TransformRun(where, TransformStart, 3 * Len(where) + 3)
  IN  /\ TransformEnded(where, run[Len(run)])
      /\ Len(run) <= 3 * Len(where) + 1
      /\ \A i \in 1..(Len(run) - 1) :
           \/ run[i + 1].err # Ok
           \/ /\ run[i + 1].pos >= run[i].pos
              /\ TurnsLeft(where, run[i + 1]) < TurnsLeft(where, run[i])

\* a filter with a group: the loop passes through every state of the parser
\* and ends at the end of the input
C34_Witness ==
  LET run == TransformRun(where, TransformStart, 3 * Len(where) + 3)
  IN  /\ where = "a='1' and (b>'1' or c<'12')"
      /\ {run[i].state : i \in 1..Len(run)}
           = {"Start", "LeftEmbrace", "Key", "Operator", "Value", "AfterValue",
              "Connector", "RightEmbrace"}
      /\ run[Len(run)].err = Ok /\ run[Len(run)].pos = Len(where)

\* the comparison tokens of the tokens, nested ones included
RECURSIVE ComparisonsIn(_)
ComparisonsIn(tokens) ==
  IF tokens = <<>> THEN {}
  ELSE LET aToken == Head(tokens)
       IN  (CASE aToken.tokenType = "TagComparingToken" -> {aToken}
              [] aToken.tokenType = "TreeToken" -> ComparisonsIn(aToken.token)
              [] OTHER -> {})
             \cup ComparisonsIn(Tail(tokens))

\* key, one of the five operators, and a value in single quotes
CompleteComparison(token) ==
  /\ token.key # ""
  /\ token.operator \in tagFilterOperators
  /\ token.value # Undef
  /\ Len(token.value) >= 2
  /\ SubSeq(token.value, 1, 1) = "'"
  /\ SubSeq(token.value, Len(token.value), Len(token.value)) = "'"

\* C35: in every tree Transform returns each comparison is complete: a
\* non-empty key, one of the five operators, a value that begins and ends
\* with a single quote; input that ends inside a key, before an operator or
\* inside an unterminated value is rejected and not returned as a tree.
C35_ComparisonsAreComplete ==
  /\ Transform(where).err = Ok =>
       \A token \in ComparisonsIn(Transform(where).tree.token) : CompleteComparison(token)
  /\ where \in TruncatedFilters => Transform(where).err # Ok

\* C36: spaces before a "(", at the start of the filter or directly after
\* another "(", do not change the parse: the filter with the spaces gives the
\* tree of the filter without them, and does not fail with the parentheses
\* error.
C36_SpacesBeforeParenthesisKeepTheTree ==
  \A pair \in SpacedFilters :
    where = pair[2] =>
      /\ Transform(pair[1]).err = Ok
      /\ Transform(where) = Transform(pair[1])
      /\ Transform(where).err # "Expecting ')"

\* the rows of every page, in turn, when each next marker is passed on until
\* none is returned; at most n calls
RECURSIVE AllPages(_, _, _, _, _)
AllPages(sorted, maxResults, marker, includeUncommittedBlobs, n) ==
  LET page == listAllBlobs(sorted, maxResults, marker, TRUE, includeUncommittedBlobs)
  IN  IF page.nextMarker = Undef \/ n = 1 THEN page.rows
      ELSE page.rows \o AllPages(sorted, maxResults, page.nextMarker,
                                  includeUncommittedBlobs, n - 1)

\* C37: paging through listAllBlobs with snapshots included, each next
\* marker passed to the next call until none is returned, yields every live
\* blob row, base blobs and each of their snapshots, exactly once, for every
\* page size of at least 1.
C37_ListAllBlobsPagesEveryRowOnce ==
  \A sorted \in BlobsByName(DB), maxResults \in PageSizes, uncommitted \in BOOLEAN :
    LET rows == AllPages(sorted, maxResults, Undef, uncommitted, Cardinality(blobs) + 1)
    IN  \A r \in blobs :
          (r.deleting = 0 /\ (uncommitted \/ r.isCommitted))
            => Cardinality({i \in 1..Len(rows) : rows[i] = r}) = 1

\* C38: in every reachable state every live staged block (deleting = 0) has
\* its base blob row, committed or uncommitted, with the same container
\* and blob name and the empty snapshot id: no sequence of stageBlock,
\* commitBlockList, createBlob, deleteBlob, createSnapshot and
\* startCopyFromURL leaves a staged block without its blob row.
C38_StagedBlockHasItsBlobRow ==
  \A i \in 1..Len(blocks) :
    blocks[i].deleting = 0 =>
      \E r \in blobs : /\ r.containerName = blocks[i].containerName
                       /\ r.blobName = blocks[i].blobName
                       /\ r.snapshot = BaseSnapshot
                       /\ r.deleting = 0

\* a live staged block of a committed blob that has a snapshot
C38_Witness ==
  \E i \in 1..Len(blocks), r \in blobs, s \in blobs :
    /\ blocks[i].deleting = 0 /\ r.blobName = blocks[i].blobName
    /\ r.snapshot = BaseSnapshot /\ r.isCommitted /\ s.snapshot # BaseSnapshot

\* the sequence back to front
RECURSIVE Reversed(_)
Reversed(s) == IF s = <<>> THEN <<>> ELSE Reversed(Tail(s)) \o <<Head(s)>>

\* C39: after any sequence of putAtBeginning and pushAtEnd calls toArray
\* returns every inserted element exactly once in list order: the elements
\* put at the beginning in reverse order of insertion, then the elements
\* pushed at the end in order of insertion.
C39_ToArrayReturnsEveryElement ==
  toArray(linkedList) = Reversed(linkedList.put) \o linkedList.pushed

\* the nodes that can be reached from head by next
RECURSIVE ReachableFrom(_, _)
ReachableFrom(this, index) ==
  IF index = 0 THEN {}
  ELSE {index} \cup ReachableFrom(this, this.nodes[index].next)

\* C40: in every state reachable by putAtBeginning and pushAtEnd calls head
\* and tail are both undefined, or both defined with tail the last node
\* reachable from head (tail.next undefined); so no call of putAtBeginning
\* or pushAtEnd throws Fatal error.
C40_TailIsLastNodeAndNoCallThrows ==
  /\ (linkedList.head = 0) = (linkedList.tail = 0)
  /\ linkedList.tail # 0 =>
       /\ linkedList.tail \in ReachableFrom(linkedList, linkedList.head)
       /\ linkedList.nodes[linkedList.tail].next = 0
  /\ \A data \in ListData :
       /\ putAtBeginning(linkedList, data).err = Ok
       /\ pushAtEnd(linkedList, data).err = Ok

====
